---- MODULE Spec2Model ----
(***************************************************************************)
(* Feature calculators and race ranking of the F1 prediction pipeline.     *)
(*                                                                         *)
(* Numbers are exact rationals [k, n, d]: k = "num" with value n/d in      *)
(* lowest terms, k = "nan" for a pandas/NumPy missing value (NaN, NaT) and *)
(* k = "none" for Python's None.  Strings the code inspects character by   *)
(* character (Status) are sequences of one-character strings.              *)
(***************************************************************************)
EXTENDS Integers, Sequences, FiniteSets, TLC

VARIABLES pc, call, ret, predictions

vars == <<pc, call, ret, predictions>>

\* ---------------------------------------------------------------- bounds
MaxRound == 2
MaxHist == 3
MaxWindow == 2
MaxLaps == 3

\* ---------------------------------------------------------------- numbers
Abs(x) == IF x < 0 THEN -x ELSE x

RECURSIVE Gcd(_, _)
Gcd(a, b) == IF b = 0 THEN a ELSE Gcd(b, a % b)

Rat(n, d) ==
    LET g == Gcd(Abs(n), Abs(d))
        s == IF d < 0 THEN -1 ELSE 1
    IN [k |-> "num", n |-> (s * n) \div g, d |-> (s * d) \div g]

Num(i) == [k |-> "num", n |-> i, d |-> 1]
NaN == [k |-> "nan", n |-> 0, d |-> 1]
None == [k |-> "none", n |-> 0, d |-> 1]

IsNum(x) == x.k = "num"
IsNaN(x) == x.k = "nan"

RAdd(a, b) == Rat(a.n * b.d + b.n * a.d, a.d * b.d)
RSub(a, b) == Rat(a.n * b.d - b.n * a.d, a.d * b.d)
RMul(a, b) == Rat(a.n * b.n, a.d * b.d)
RDiv(a, b) == Rat(a.n * b.d, a.d * b.n)
RLess(a, b) == a.n * b.d < b.n * a.d

RECURSIVE RSum(_)
RSum(xs) == IF xs = <<>> THEN Num(0) ELSE RAdd(Head(xs), RSum(Tail(xs)))

\* pandas Series.mean(): missing values are skipped; NaN when nothing is left
SeriesMean(xs) ==
    LET present == SelectSeq(xs, IsNum)
    IN IF present = <<>> THEN NaN ELSE RDiv(RSum(present), Num(Len(present)))

\* numpy.mean over a non-empty list of numbers
NpMean(xs) == RDiv(RSum(xs), Num(Len(xs)))

\* ---------------------------------------------------------------- strings
UpperCase == <<"A","B","C","D","E","F","G","H","I","J","K","L","M",
               "N","O","P","Q","R","S","T","U","V","W","X","Y","Z">>
LowerCase == <<"a","b","c","d","e","f","g","h","i","j","k","l","m",
               "n","o","p","q","r","s","t","u","v","w","x","y","z">>

LowerChar(c) ==
    IF \E i \in 1..26 : UpperCase[i] = c
    THEN LowerCase[CHOOSE i \in 1..26 : UpperCase[i] = c]
    ELSE c

\* str.lower()
StrLower(s) == [i \in 1..Len(s) |-> LowerChar(s[i])]

\* Python's `sub in s`
StrContains(s, sub) ==
    \E i \in 1..(Len(s) - Len(sub) + 1) : SubSeq(s, i, i + Len(sub) - 1) = sub

sFinished == <<"F","i","n","i","s","h","e","d">>
sPlus1Lap == <<"+","1"," ","L","a","p">>
sEngine == <<"E","n","g","i","n","e">>
sGearbox == <<"G","e","a","r","b","o","x">>
sHydraulics == <<"H","y","d","r","a","u","l","i","c","s">>
sMechanical == <<"M","e","c","h","a","n","i","c","a","l">>
sCollision == <<"C","o","l","l","i","s","i","o","n">>
\* a Status cell holding no string (NaN in the results table)
sMissing == <<"NaN">>

\* str(row['Status']): a string is unchanged, a missing cell prints as 'nan'
PyStr(v) == IF v = sMissing THEN <<"n","a","n">> ELSE v

\* ---------------------------------------------------------------- data frames
\* A data frame is a sequence of rows (records), in row order.

\* DataFrame.tail(n)
DfTail(df, n) ==
    IF Len(df) <= n THEN df ELSE SubSeq(df, Len(df) - n + 1, Len(df))

IsSortedByRound(df) ==
    \A i \in 1..Len(df) : \A j \in 1..Len(df) :
        i < j => df[i].RoundNumber <= df[j].RoundNumber

\* DataFrame.sort_values('RoundNumber'): ascending; the default algorithm
\* (quicksort) does not fix the order of rows with equal keys, so the result
\* is any permutation of the rows that is sorted by RoundNumber.
SortValuesRound(df) ==
    { s \in { [i \in 1..Len(df) |-> df[p[i]]] : p \in Permutations(1..Len(df)) } :
        IsSortedByRound(s) }

BeforeRoundLe(df, current_round) ==
    SelectSeq(df, LAMBDA r : r.RoundNumber <= current_round)

\* df[df['RoundNumber'] < current_round]
BeforeRound(df, current_round) ==
    SelectSeq(df, LAMBDA r : r.RoundNumber < current_round)

Column(df, name) == [i \in 1..Len(df) |-> df[i][name]]

\* ---------------------------------------------------------------- driver.py
\* The set of values calculate_driver_season_avg_position can return.
calculate_driver_season_avg_position(driver_results, current_round, window) ==
    { IF past_results = <<>>
      THEN NaN
      ELSE SeriesMean(Column(DfTail(past_results, window), "Position")) :
        past_results \in SortValuesRound(BeforeRound(driver_results, current_round)) }

IsDnfStatusLoose(status) ==
    ~(status = sFinished) \/ ~StrContains(status, <<"+">>)

\* status not in ['Finished'] and '+' not in status
IsDnfStatus(status) ==
    ~(status = sFinished) /\ ~StrContains(status, <<"+">>)

calculate_driver_dnf_rate(driver_results, current_round) ==
    LET past_results == BeforeRound(driver_results, current_round)
        total_races == Len(past_results)
        dnfs == Len(SelectSeq(past_results, LAMBDA r : IsDnfStatus(PyStr(r.Status))))
    IN IF past_results = <<>> THEN Num(0) ELSE Rat(dnfs, total_races)

\* session.laps.pick_drivers(identifier): the laps of one driver, named by
\* abbreviation or by car number
PickDrivers(laps, identifier) ==
    SelectSeq(laps, LAMBDA l : l.Driver = identifier \/ l.DriverNumber = identifier)

TimedLaps(laps) == SelectSeq(laps, LAMBDA l : IsNum(l.LapTime))

NoLap == [found |-> FALSE, LapTime |-> NaN]

PickSlowest(laps) ==
    IF TimedLaps(laps) = <<>>
    THEN { NoLap, [found |-> TRUE, LapTime |-> NaN] }
    ELSE { [found |-> TRUE, LapTime |-> l.LapTime] :
             l \in { TimedLaps(laps)[i] : i \in
                       { j \in 1..Len(TimedLaps(laps)) :
                           \A m \in 1..Len(TimedLaps(laps)) :
                             ~RLess(TimedLaps(laps)[j].LapTime, TimedLaps(laps)[m].LapTime) } } }

\* Laps.pick_fastest(): the lap of least LapTime.  Without any timed lap the
\* data library gives, depending on its version, no lap (None) or a lap whose
\* LapTime is missing; both outcomes are kept.
PickFastest(laps) ==
    IF TimedLaps(laps) = <<>>
    THEN { NoLap, [found |-> TRUE, LapTime |-> NaN] }
    ELSE { [found |-> TRUE, LapTime |-> l.LapTime] :
             l \in { TimedLaps(laps)[i] : i \in
                       { j \in 1..Len(TimedLaps(laps)) :
                           \A m \in 1..Len(TimedLaps(laps)) :
                             ~RLess(TimedLaps(laps)[m].LapTime, TimedLaps(laps)[j].LapTime) } } }

\* Timedelta.total_seconds() of a time kept in milliseconds
TotalSeconds(ms) == Rat(ms.n, ms.d * 1000)

\* no teammate: None (or an empty name), both false in `if not teammate`
NoTeammate == ""

\* The set of values calculate_qualifying_delta_to_teammate can return.
calculate_qualifying_delta_to_teammate(session, driver, teammate) ==
    IF teammate = NoTeammate THEN { Num(0) }
    ELSE LET d_laps == PickDrivers(session.laps, driver)
             t_laps == PickDrivers(session.laps, teammate)
         IN IF d_laps = <<>> \/ t_laps = <<>> THEN { Num(0) }
            ELSE { IF ~d_fastest.found \/ ~t_fastest.found THEN Num(0)
                   ELSE IF IsNaN(d_fastest.LapTime) \/ IsNaN(t_fastest.LapTime) THEN Num(0)
                   ELSE TotalSeconds(RSub(d_fastest.LapTime, t_fastest.LapTime)) :
                     d_fastest \in PickFastest(d_laps), t_fastest \in PickFastest(t_laps) }

\* ---------------------------------------------------------------- inputs
Rounds == 1..MaxRound
CurrentRounds == 1..(MaxRound + 1)
Windows == 1..MaxWindow

DriverOutcomes ==
    { [Position |-> Num(3), Status |-> sFinished],
      [Position |-> Num(1), Status |-> sPlus1Lap],
      [Position |-> NaN, Status |-> sEngine],
      [Position |-> Num(5), Status |-> sMissing] }

DriverRows ==
    { [RoundNumber |-> r, Position |-> o.Position, Status |-> o.Status] :
        r \in Rounds, o \in DriverOutcomes }

SeqsUpTo(S, n) == UNION { [1..m -> S] : m \in 0..n }

DriverHistories == SeqsUpTo(DriverRows, MaxHist)

NoRet == None

\* a lap of the session's lap table; LapTime in milliseconds (NaN: not timed)
Lap(drv, num, ms, stint, status, st) ==
    [Driver |-> drv, DriverNumber |-> num, LapTime |-> ms, Stint |-> stint,
     TrackStatus |-> status, ST |-> st]

QualiLaps ==
    { Lap(d[1], d[2], t, 1, "1", NaN) :
        d \in {<<"VER", "1">>, <<"PER", "11">>},
        t \in {Num(80000), Num(80250), Num(81000), NaN} }
    \cup { Lap("LEC", "16", Num(79000), 1, "1", NaN) }

QualiSessions == { [laps |-> l] : l \in SeqsUpTo(QualiLaps, MaxLaps) }

\* ---------------------------------------------------------------- SpecDriver
InitDriver ==
    /\ pc = "call"
    /\ \/ \E h \in DriverHistories, c \in CurrentRounds, w \in Windows :
             call = [fn |-> "avg_position", driver_results |-> h,
                     current_round |-> c, window |-> w]
       \/ \E h \in DriverHistories, c \in CurrentRounds :
             call = [fn |-> "dnf_rate", driver_results |-> h, current_round |-> c]
       \/ \E q \in QualiSessions, t \in {NoTeammate, "11"} :
             call = [fn |-> "quali_delta", session |-> q, driver |-> "1", teammate |-> t]
    /\ ret = NoRet
    /\ predictions = <<>>

AvgPosition ==
    /\ pc = "call"
    /\ call.fn = "avg_position"
    /\ ret' \in calculate_driver_season_avg_position(
                    call.driver_results, call.current_round, call.window)
    /\ pc' = "done"
    /\ UNCHANGED <<call, predictions>>

DnfRate ==
    /\ pc = "call"
    /\ call.fn = "dnf_rate"
    /\ ret' = calculate_driver_dnf_rate(call.driver_results, call.current_round)
    /\ pc' = "done"
    /\ UNCHANGED <<call, predictions>>

QualiDelta ==
    /\ pc = "call"
    /\ call.fn = "quali_delta"
    /\ ret' \in calculate_qualifying_delta_to_teammate(
                    call.session, call.driver, call.teammate)
    /\ pc' = "done"
    /\ UNCHANGED <<call, predictions>>

NextDriver == AvgPosition \/ DnfRate \/ QualiDelta

SpecDriver == InitDriver /\ [][NextDriver]_vars

\* ---------------------------------------------------------------- claims: driver.py
Min(a, b) == IF a < b THEN a ELSE b

\* indices of the rows with RoundNumber < current_round
PastIdx(df, current_round) == { i \in 1..Len(df) : df[i].RoundNumber < current_round }

\* the ways to take the m most recent rows of P (rows of equal round are interchangeable)
MostRecent(df, P, m) ==
    { S \in SUBSET P :
        /\ Cardinality(S) = m
        /\ \A i \in S : \A j \in P \ S : df[j].RoundNumber <= df[i].RoundNumber }

RECURSIVE PosTotal(_, _)
PosTotal(df, S) ==
    IF S = {} THEN 0
    ELSE LET i == CHOOSE x \in S : TRUE IN df[i].Position.n + PosTotal(df, S \ {i})

AvgDone == pc = "done" /\ call.fn = "avg_position"

\* C2 (as stated): the result is NaN without an earlier round and otherwise the
\* arithmetic mean of Position over all of the last min(window, n) earlier rows
\* (the sum of their Position values divided by their number; with a missing
\* Position among them that sum, and so the mean, is NaN).
C2_MeanOverAllRecentRows ==
    AvgDone =>
        LET df == call.driver_results
            P == PastIdx(df, call.current_round)
            n == Cardinality(P)
        IN IF n = 0 THEN IsNaN(ret)
           ELSE \E S \in MostRecent(df, P, Min(call.window, n)) :
                  IF \E i \in S : IsNaN(df[i].Position)
                  THEN IsNaN(ret)
                  ELSE IsNum(ret) /\ ret.n * Cardinality(S) = ret.d * PosTotal(df, S)

\* C2 (amended): the result is NaN without an earlier round and otherwise the
\* mean of the Position values that are present among the last min(window, n)
\* earlier rows in ascending round order, NaN when none of them is present; rows
\* of round >= current_round have no influence.
C2_MeanOverPresentRecentRows ==
    AvgDone =>
        LET df == call.driver_results
            P == PastIdx(df, call.current_round)
            n == Cardinality(P)
        IN IF n = 0 THEN IsNaN(ret)
           ELSE \E S \in MostRecent(df, P, Min(call.window, n)) :
                  LET V == { i \in S : IsNum(df[i].Position) }
                  IN IF V = {} THEN IsNaN(ret)
                     ELSE IsNum(ret) /\ ret.n * Cardinality(V) = ret.d * PosTotal(df, V)

\* three earlier rows, a window of two, one of the two recent positions missing
C2_Witness ==
    /\ AvgDone
    /\ Len(call.driver_results) = 3
    /\ Cardinality(PastIdx(call.driver_results, call.current_round)) = 3
    /\ call.window = 2
    /\ IsNaN(call.driver_results[3].Position)
    /\ call.driver_results[3].RoundNumber = 2
    /\ call.driver_results[1].RoundNumber = 2
    /\ ret = Num(5)

DnfDone == pc = "done" /\ call.fn = "dnf_rate"

HasPlus(status) == \E j \in DOMAIN status : status[j] = "+"

\* C3: the DNF rate is exactly 0 without an earlier round and otherwise k/n,
\* n the number of earlier rows and k the number of those whose Status is not
\* exactly "Finished" and has no "+" character.
C3_DnfRate ==
    DnfDone =>
        LET df == call.driver_results
            P == PastIdx(df, call.current_round)
            n == Cardinality(P)
            K == { i \in P : PyStr(df[i].Status) # sFinished /\ ~HasPlus(PyStr(df[i].Status)) }
        IN IF n = 0 THEN ret = Num(0)
           ELSE IsNum(ret) /\ ret.n * n = Cardinality(K) * ret.d

\* one retirement among three earlier rows, a later row ignored
C3_Witness ==
    /\ DnfDone
    /\ Len(call.driver_results) = 3
    /\ call.current_round = 2
    /\ Cardinality(PastIdx(call.driver_results, call.current_round)) = 2
    /\ ret = Rat(1, 2)
    /\ \E i \in 1..3 : call.driver_results[i].Status = sPlus1Lap /\ call.driver_results[i].RoundNumber = 1

\* ---------------------------------------------------------------- constructor.py
\* standings_data is [present, rows]: present = FALSE stands for None.
calculate_constructor_standing(standings_data, team_name, current_round) ==
    LET prev_round == current_round - 1
        team_standing ==
            SelectSeq(standings_data.rows,
                      LAMBDA r : r.RoundNumber = prev_round /\ r.TeamName = team_name)
    IN IF ~standings_data.present \/ standings_data.rows = <<>> THEN NaN
       ELSE IF prev_round < 1 THEN Num(0)
       ELSE IF team_standing = <<>> THEN NaN
       ELSE team_standing[1].Position

IsMechanicalCaseSensitive(status) ==
    \/ StrContains(status, <<"e","n","g","i","n","e">>)
    \/ StrContains(status, <<"g","e","a","r","b","o","x">>)
    \/ StrContains(status, <<"h","y","d","r","a","u","l","i","c","s">>)
    \/ StrContains(status, <<"m","e","c","h","a","n","i","c","a","l">>)

\* 'engine' in status or 'gearbox' in status or 'hydraulics' in status or
\* 'mechanical' in status, for status = str(row['Status']).lower()
IsMechanical(status) ==
    \/ StrContains(StrLower(status), <<"e","n","g","i","n","e">>)
    \/ StrContains(StrLower(status), <<"g","e","a","r","b","o","x">>)
    \/ StrContains(StrLower(status), <<"h","y","d","r","a","u","l","i","c","s">>)
    \/ StrContains(StrLower(status), <<"m","e","c","h","a","n","i","c","a","l">>)

\* The set of values calculate_reliability_score can return.
calculate_reliability_score(constructor_results, current_round, window) ==
    { IF past_results = <<>>
      THEN Num(1)
      ELSE LET recent == DfTail(past_results, window * 2)
               failures == Len(SelectSeq(recent, LAMBDA r : IsMechanical(PyStr(r.Status))))
               total_entries == Len(recent)
           IN IF total_entries = 0 THEN Num(1)
              ELSE RSub(Num(1), Rat(failures, total_entries)) :
        past_results \in SortValuesRound(BeforeRound(constructor_results, current_round)) }

\* ---------------------------------------------------------------- inputs
Teams == {"Red Bull Racing", "Ferrari"}

StandingRows ==
    { [RoundNumber |-> r, TeamName |-> t, Position |-> Num(p)] :
        r \in Rounds, t \in Teams, p \in {1, 2} }

StandingTables ==
    { [present |-> FALSE, rows |-> <<>>] }
    \cup { [present |-> TRUE, rows |-> h] : h \in SeqsUpTo(StandingRows, MaxHist) }

CoreStatuses == {sFinished, sEngine, sCollision}
AllStatuses ==
    {sFinished, sPlus1Lap, sEngine, sGearbox, sHydraulics, sMechanical, sCollision, sMissing}

ConstructorRow(r, s) == [RoundNumber |-> r, Position |-> Num(1), Status |-> s]

\* histories of every shape over a few statuses, and every status on its own
ConstructorHistories ==
    SeqsUpTo({ ConstructorRow(r, s) : r \in Rounds, s \in CoreStatuses }, MaxHist)
    \cup { <<ConstructorRow(r, s)>> : r \in Rounds, s \in AllStatuses }

\* ---------------------------------------------------------------- SpecConstructor
InitConstructor ==
    /\ pc = "call"
    /\ \/ \E t \in StandingTables, n \in Teams, c \in CurrentRounds :
             call = [fn |-> "standing", standings_data |-> t, team_name |-> n,
                     current_round |-> c]
       \/ \E h \in ConstructorHistories, c \in CurrentRounds, w \in Windows :
             call = [fn |-> "reliability", constructor_results |-> h,
                     current_round |-> c, window |-> w]
    /\ ret = NoRet
    /\ predictions = <<>>

Standing ==
    /\ pc = "call"
    /\ call.fn = "standing"
    /\ ret' = calculate_constructor_standing(
                  call.standings_data, call.team_name, call.current_round)
    /\ pc' = "done"
    /\ UNCHANGED <<call, predictions>>

Reliability ==
    /\ pc = "call"
    /\ call.fn = "reliability"
    /\ ret' \in calculate_reliability_score(
                    call.constructor_results, call.current_round, call.window)
    /\ pc' = "done"
    /\ UNCHANGED <<call, predictions>>

NextConstructor == Standing \/ Reliability

SpecConstructor == InitConstructor /\ [][NextConstructor]_vars

\* ---------------------------------------------------------------- claims: constructor.py
ReliabilityDone == pc = "done" /\ call.fn = "reliability"

MechanicalStatuses == {sEngine, sGearbox, sHydraulics, sMechanical}

\* C4: the reliability score is 1 without an earlier round and otherwise
\* 1 - f/m over the m = min(2*window, n) most recent earlier rows, f of which
\* have a mechanical-failure status (matched case-insensitively); it always
\* lies in [0, 1].
C4_Reliability ==
    ReliabilityDone =>
        LET df == call.constructor_results
            P == PastIdx(df, call.current_round)
            n == Cardinality(P)
        IN /\ IsNum(ret) /\ 0 <= ret.n /\ ret.n <= ret.d
           /\ IF n = 0 THEN ret = Num(1)
              ELSE \E S \in MostRecent(df, P, Min(2 * call.window, n)) :
                     LET F == { i \in S : df[i].Status \in MechanicalStatuses }
                     IN ret.n * Cardinality(S) = (Cardinality(S) - Cardinality(F)) * ret.d

\* three earlier rows, a window of one: the oldest row (an engine failure) is left out
C4_Witness ==
    /\ ReliabilityDone
    /\ call.window = 1
    /\ Len(call.constructor_results) = 3
    /\ call.current_round = 3
    /\ call.constructor_results[2].RoundNumber = 1
    /\ call.constructor_results[2].Status = sEngine
    /\ call.constructor_results[1].RoundNumber = 2
    /\ call.constructor_results[1].Status = sEngine
    /\ call.constructor_results[3].RoundNumber = 2
    /\ call.constructor_results[3].Status = sCollision
    /\ ret = Rat(1, 2)

StandingDone == pc = "done" /\ call.fn = "standing"

StandingMatches ==
    { i \in 1..Len(call.standings_data.rows) :
        /\ call.standings_data.rows[i].RoundNumber = call.current_round - 1
        /\ call.standings_data.rows[i].TeamName = call.team_name }

DeltaDone == pc = "done" /\ call.fn = "quali_delta"

\* the lap times (ms) a driver set in the session
LapTimesOf(session, identifier) ==
    { session.laps[i].LapTime.n : i \in
        { j \in 1..Len(session.laps) :
            /\ session.laps[j].DriverNumber = identifier
            /\ IsNum(session.laps[j].LapTime) } }

SetMin(S) == CHOOSE x \in S : \A y \in S : x <= y

RacePaceResult(p, d, t, r, e) ==
    [race_pace |-> p, tire_deg |-> d, top_speed |-> t, rain_prob |-> r, error |-> e]

\* except Exception: return None, None, None, None
RacePaceFailed == RacePaceResult(None, None, None, None, TRUE)

\* rain_prob = 0.0, replaced by Rainfall.sum() / len(weather_data) when the
\* weather table is there and has samples
SessionRainProb(session) ==
    IF session.weather.state = "table" /\ Len(session.weather.Rainfall) > 0
    THEN Rat(Len(SelectSeq(session.weather.Rainfall, LAMBDA b : b)),
             Len(session.weather.Rainfall))
    ELSE Num(0)

\* Series.max(): missing values are skipped, NaN when nothing is left
SeriesMax(xs) ==
    LET present == SelectSeq(xs, IsNum)
    IN IF present = <<>> THEN NaN
       ELSE present[CHOOSE i \in 1..Len(present) :
                      \A j \in 1..Len(present) : ~RLess(present[i], present[j])]

\* top speed: the speed trap maximum, else the fastest lap's telemetry
TopSpeeds(session, laps) ==
    LET st == IF session.st_column THEN SeriesMax(Column(laps, "ST")) ELSE None
    IN IF IsNum(st) THEN { st }
       ELSE { IF fastest.found /\ session.telemetry.ok THEN session.telemetry.Speed ELSE st :
                fastest \in PickFastest(laps) }

\* Laps.pick_quicklaps(): laps within 107 % of the fastest lap of the table
PickQuickLaps(laps) ==
    LET timed == TimedLaps(laps)
    IN SelectSeq(timed, LAMBDA l :
           \E m \in 1..Len(timed) :
               /\ \A j \in 1..Len(timed) : ~RLess(timed[j].LapTime, timed[m].LapTime)
               /\ RLess(RMul(l.LapTime, Num(100)), RMul(timed[m].LapTime, Num(107))))

\* Laps.pick_track_status(status): laps whose TrackStatus equals status
PickTrackStatus(laps, status) == SelectSeq(laps, LAMBDA l : l.TrackStatus = status)

\* Series.unique(): the values in order of first appearance
RECURSIVE Unique(_)
Unique(xs) ==
    IF xs = <<>> THEN <<>>
    ELSE LET u == Unique(SubSeq(xs, 1, Len(xs) - 1))
             x == xs[Len(xs)]
         IN IF \E i \in 1..Len(u) : u[i] = x THEN u ELSE Append(u, x)

\* laps[laps['Stint'] == stint_id]
StintLaps(laps, stint_id) == SelectSeq(laps, LAMBDA l : l.Stint = stint_id)

\* stint_laps['LapTime'].dt.total_seconds().values
StintTimes(stint_laps) == [i \in 1..Len(stint_laps) |-> TotalSeconds(stint_laps[i].LapTime)]

IsLongRunStrict(n, min_laps) == n > min_laps

\* len(stint_laps) >= min_laps
IsLongRun(n, min_laps) == n >= min_laps

\* the slope and the intercept of the least-squares line through (i, times[i+1]),
\* i = 0..n-1, in exact arithmetic
LineFit(times) ==
    LET n == Len(times)
        sx == RSum([i \in 1..n |-> Num(i - 1)])
        sxx == RSum([i \in 1..n |-> Num((i - 1) * (i - 1))])
        sy == RSum(times)
        sxy == RSum([i \in 1..n |-> RMul(Num(i - 1), times[i])])
        slope == RDiv(RSub(RMul(Num(n), sxy), RMul(sx, sy)),
                      RSub(RMul(Num(n), sxx), RMul(sx, sx)))
    IN [slope |-> slope,
        intercept |-> RDiv(RSub(sy, RMul(slope, sx)), Num(n))]

PolyfitIntercept(times) == LineFit(times).intercept

\* slope, _ = np.polyfit(np.arange(len(times)), times, 1)
PolyfitSlope(times) == LineFit(times).slope

\* The set of results calculate_race_pace can return.
calculate_race_pace(session, driver, min_laps) ==
    IF ~session.present THEN { RacePaceResult(None, None, None, None, FALSE) }
    ELSE IF session.weather.state = "raises" THEN { RacePaceFailed }
    ELSE IF ~session.laps_loaded THEN { RacePaceFailed }
    ELSE
      LET rain_prob == SessionRainProb(session)
          laps == PickDrivers(session.laps, driver)
          quick == PickTrackStatus(PickQuickLaps(laps), "1")
          stints == Unique(Column(quick, "Stint"))
          long_runs ==
              SelectSeq(stints, LAMBDA id : IsLongRun(Len(StintLaps(quick, id)), min_laps))
          long_run_avgs ==
              [i \in 1..Len(long_runs) |-> NpMean(StintTimes(StintLaps(quick, long_runs[i])))]
          sloped == SelectSeq(long_runs, LAMBDA id : Len(StintLaps(quick, id)) > 1)
          long_run_slopes ==
              [i \in 1..Len(sloped) |-> PolyfitSlope(StintTimes(StintLaps(quick, sloped[i])))]
          final_pace == IF long_run_avgs # <<>> THEN NpMean(long_run_avgs) ELSE None
          final_deg ==
              IF long_run_avgs # <<>>
              THEN IF long_run_slopes # <<>> THEN NpMean(long_run_slopes) ELSE Num(0)
              ELSE None
      IN IF laps = <<>> THEN { RacePaceResult(None, None, None, rain_prob, FALSE) }
         ELSE { IF quick = <<>> THEN RacePaceResult(None, None, top_speed, rain_prob, FALSE)
                ELSE IF ~session.stint_column THEN RacePaceFailed
                ELSE RacePaceResult(final_pace, final_deg, top_speed, rain_prob, FALSE) :
                  top_speed \in TopSpeeds(session, laps) }

\* ---------------------------------------------------------------- inputs
MaxMinLaps == 2
MaxSamples == 2

\* one weather sample per entry: its Rainfall flag and its TrackTemp
Weather(state, rainfall) ==
    [state |-> state, Rainfall |-> rainfall,
     TrackTemp |-> [i \in 1..Len(rainfall) |-> Num(30 + 2 * i)]]

Telemetry(ok) == [ok |-> ok, Speed |-> Num(320)]

Session(weather, loaded, laps, st, stint, tel) ==
    [present |-> TRUE, weather |-> weather, laps_loaded |-> loaded, laps |-> laps,
     st_column |-> st, stint_column |-> stint, telemetry |-> tel]

NoSession ==
    [present |-> FALSE, weather |-> Weather("none", <<>>), laps_loaded |-> FALSE,
     laps |-> <<>>, st_column |-> FALSE, stint_column |-> FALSE, telemetry |-> Telemetry(FALSE)]

Stints == {1, 2}

PaceLaps ==
    { Lap("VER", "1", Num(t), s, ts, Num(310)) :
        t \in {90000, 90500, 91000, 100000}, s \in Stints, ts \in {"1", "4"} }

\* a driver's laps run through the stints in order
StintsInOrder(laps) ==
    \A i \in 1..Len(laps) : \A j \in 1..Len(laps) : i < j => laps[i].Stint <= laps[j].Stint

OtherDriverLaps == { <<>>, <<Lap("PER", "11", Num(89000), 1, "1", Num(305))>> }

\* lap tables of every shape under one weather table ...
PaceSessions ==
    { Session(Weather("table", <<TRUE, FALSE>>), TRUE, l \o o, TRUE, TRUE, Telemetry(TRUE)) :
        l \in { x \in SeqsUpTo(PaceLaps, MaxLaps) : StintsInOrder(x) },
        o \in OtherDriverLaps }

WeatherStates ==
    { Weather(s, <<>>) : s \in {"absent", "none", "raises"} }
    \cup { Weather("table", r) : r \in SeqsUpTo(BOOLEAN, MaxSamples) }

FixedLapTables ==
    { <<>>,
      <<Lap("PER", "11", Num(89000), 1, "1", Num(305))>>,
      <<Lap("VER", "1", NaN, 1, "1", NaN)>>,
      <<Lap("VER", "1", Num(100000), 1, "4", NaN), Lap("VER", "1", Num(91000), 1, "4", NaN)>>,
      <<Lap("VER", "1", Num(90000), 1, "1", NaN), Lap("VER", "1", Num(90500), 1, "1", Num(312)),
        Lap("VER", "1", NaN, 1, "1", NaN)>> }

\* ... and every weather state and failure over a few lap tables
WeatherSessions ==
    { Session(w, ld, l, st, sc, Telemetry(tel)) :
        w \in WeatherStates, ld \in BOOLEAN, l \in FixedLapTables,
        st \in BOOLEAN, sc \in BOOLEAN, tel \in BOOLEAN }

PracticeSessions == PaceSessions \cup WeatherSessions \cup { NoSession }

\* ---------------------------------------------------------------- SpecPractice
InitPractice ==
    /\ pc = "call"
    /\ \E s \in PracticeSessions, m \in 1..MaxMinLaps :
          call = [fn |-> "race_pace", session |-> s, driver |-> "VER", min_laps |-> m]
    /\ ret = NoRet
    /\ predictions = <<>>

RacePace ==
    /\ pc = "call"
    /\ call.fn = "race_pace"
    /\ ret' \in calculate_race_pace(call.session, call.driver, call.min_laps)
    /\ pc' = "done"
    /\ UNCHANGED <<call, predictions>>

NextPractice == RacePace

SpecPractice == InitPractice /\ [][NextPractice]_vars

\* ---------------------------------------------------------------- claims: practice.py
PaceDone == pc = "done" /\ call.fn = "race_pace"

\* the call ran to its last return
PaceReturned == PaceDone /\ call.session.present /\ ~ret.error

\* the target driver's timed laps
DriverLapIdx ==
    { i \in 1..Len(call.session.laps) :
        call.session.laps[i].Driver = call.driver /\ IsNum(call.session.laps[i].LapTime) }

LapMs(i) == call.session.laps[i].LapTime.n

\* the target driver's quick, green-flag laps
FilteredIdx ==
    { i \in DriverLapIdx :
        /\ \A j \in DriverLapIdx : 100 * LapMs(i) < 107 * LapMs(j)
        /\ call.session.laps[i].TrackStatus = "1" }

StintIdx(s) == { i \in FilteredIdx : call.session.laps[i].Stint = s }

LongRunStints ==
    { s \in { call.session.laps[i].Stint : i \in FilteredIdx } :
        Cardinality(StintIdx(s)) >= call.min_laps }

\* the elements of a set of numbers in ascending order
RECURSIVE Ascending(_)
Ascending(S) ==
    IF S = {} THEN <<>>
    ELSE LET m == CHOOSE x \in S : \A y \in S : y <= x
         IN Append(Ascending(S \ {m}), m)

\* lap times (ms) of a stint, in lap order
StintMs(s) == [k \in 1..Cardinality(StintIdx(s)) |-> LapMs(Ascending(StintIdx(s))[k])]

RECURSIVE IntSum(_)
IntSum(xs) == IF xs = <<>> THEN 0 ELSE Head(xs) + IntSum(Tail(xs))

RECURSIVE RatTotal(_, _)
RatTotal(F(_), S) ==
    IF S = {} THEN Num(0)
    ELSE LET x == CHOOSE y \in S : TRUE IN RAdd(F(x), RatTotal(F, S \ {x}))

\* mean lap time of a stint, in seconds
StintMean(s) == Rat(IntSum(StintMs(s)), 1000 * Len(StintMs(s)))

Pairs(n) == { p \in (1..n) \X (1..n) : p[1] < p[2] }

RECURSIVE PairTotal(_, _)
PairTotal(F(_), S) ==
    IF S = {} THEN 0
    ELSE LET x == CHOOSE y \in S : TRUE IN F(x) + PairTotal(F, S \ {x})

\* least-squares slope of a stint (seconds per lap) as the pair formula
\* sum (j-i)(t_j - t_i) / sum (j-i)^2 over the pairs i < j
StintSlope(s) ==
    LET ts == StintMs(s)
    IN Rat(PairTotal(LAMBDA p : (p[2] - p[1]) * (ts[p[2]] - ts[p[1]]), Pairs(Len(ts))),
           1000 * PairTotal(LAMBDA p : (p[2] - p[1]) * (p[2] - p[1]), Pairs(Len(ts))))

SlopedStints == { s \in LongRunStints : Cardinality(StintIdx(s)) > 1 }

SingleLongRun ==
    /\ PaceReturned
    /\ Cardinality(LongRunStints) = 1
    /\ SlopedStints = LongRunStints

TheStint == CHOOSE s \in LongRunStints : TRUE

C9_FailureKeepsRainProb ==
    (PaceDone /\ ret.error) =>
        /\ ret.race_pace = None /\ ret.tire_deg = None /\ ret.top_speed = None
        /\ ret.rain_prob # None
        /\ ret.rain_prob =
             IF call.session.weather.state = "table" /\ call.session.weather.Rainfall # <<>>
             THEN Rat(Cardinality({ i \in 1..Len(call.session.weather.Rainfall) :
                                      call.session.weather.Rainfall[i] }),
                      Len(call.session.weather.Rainfall))
             ELSE Num(0)

\* the rain probability of a call that returns normally is the fraction of the
\* session's weather samples flagged raining, 0.0 without samples
RainProbIsSessionFraction ==
    PaceReturned =>
        ret.rain_prob =
             IF call.session.weather.state = "table" /\ call.session.weather.Rainfall # <<>>
             THEN Rat(Cardinality({ i \in 1..Len(call.session.weather.Rainfall) :
                                      call.session.weather.Rainfall[i] }),
                      Len(call.session.weather.Rainfall))
             ELSE Num(0)

\* ---------------------------------------------------------------- track.py
\* OVERTAKE_DIFFICULTY, in the dictionary's order
OVERTAKE_DIFFICULTY ==
    << [key |-> <<"M","o","n","a","c","o">>, value |-> 10],
       [key |-> <<"S","i","n","g","a","p","o","r","e">>, value |-> 8],
       [key |-> <<"H","u","n","g","a","r","o","r","i","n","g">>, value |-> 7],
       [key |-> <<"S","i","l","v","e","r","s","t","o","n","e">>, value |-> 3],
       [key |-> <<"S","p","a","-","F","r","a","n","c","o","r","c","h","a","m","p","s">>, value |-> 2],
       [key |-> <<"M","o","n","z","a">>, value |-> 1] >>

DefaultDifficulty == 5

\* variant: the key has to be the whole name
OvertakeDifficultyExactName(circuit_name) ==
    LET hits == { i \in 1..Len(OVERTAKE_DIFFICULTY) : circuit_name = OVERTAKE_DIFFICULTY[i].key }
    IN IF hits = {} THEN DefaultDifficulty
       ELSE OVERTAKE_DIFFICULTY[CHOOSE i \in hits : TRUE].value

get_track_overtake_difficulty(circuit_name) ==
    LET hits == { i \in 1..Len(OVERTAKE_DIFFICULTY) :
                    StrContains(circuit_name, OVERTAKE_DIFFICULTY[i].key) }
    IN IF hits = {} THEN DefaultDifficulty
       ELSE OVERTAKE_DIFFICULTY[CHOOSE i \in hits : \A j \in hits : i <= j].value

TrackTempFallback == 25

calculate_track_temp_avg(session) ==
    IF session.weather.state \in {"absent", "raises"} THEN Num(TrackTempFallback)
    ELSE IF session.weather.state = "none" \/ session.weather.TrackTemp = <<>>
    THEN Num(TrackTempFallback)
    ELSE SeriesMean(session.weather.TrackTemp)

\* ---------------------------------------------------------------- processor.py
DefaultWindow == 5
ReliabilityWindow == 10
DefaultMinLaps == 5
DefaultGridPosition == 0

\* The classified session is [event, weather, results, laps_loaded, laps];
\* results.ok = FALSE: reading session.results raises.  A classification row
\* is [DriverNumber, Abbreviation, TeamName, GridPosition, Position, Status],
\* DriverNumber being the row's index.  GridPosition None: the column is absent.

\* results[(results['TeamName'] == team_name) & (results.index != driver_code)].index[0]
TeammateCode(results, team_name, driver_code) ==
    LET teammate_row ==
            SelectSeq(results, LAMBDA r : r.TeamName = team_name /\ r.DriverNumber # driver_code)
    IN IF teammate_row = <<>> THEN NoTeammate ELSE teammate_row[1].DriverNumber

\* race_pace, tire_deg, top_speed, rain_prob of one row
PracticeFeatures(practice_session, driver_abbr) ==
    IF practice_session.present
    THEN calculate_race_pace(practice_session, driver_abbr, DefaultMinLaps)
    ELSE { RacePaceResult(None, None, None, None, FALSE) }

\* the feature rows the loop body can build for one classification row
FeatureRows(session, driver_history, constructor_history, practice_session, row) ==
    LET round_num == session.event.RoundNumber
        d_hist == SelectSeq(driver_history, LAMBDA h : h.Driver = row.Abbreviation)
        c_hist == SelectSeq(constructor_history, LAMBDA h : h.TeamName = row.TeamName)
        teammate_code == TeammateCode(session.results.rows, row.TeamName, row.DriverNumber)
    IN { [Driver |-> row.DriverNumber,
          RoundNumber |-> round_num,
          Circuit |-> session.event.EventName,
          TrackTemp |-> calculate_track_temp_avg(session),
          OvertakeDifficulty |-> get_track_overtake_difficulty(session.event.EventName),
          DriverAvgPos |-> avg_pos,
          DriverDNFRate |-> calculate_driver_dnf_rate(d_hist, round_num),
          QualiDeltaTeammate |-> delta_teammate,
          ReliabilityScore |-> rel_score,
          GridPosition |-> IF row.GridPosition = None THEN Num(DefaultGridPosition)
                           ELSE row.GridPosition,
          RacePace |-> pace.race_pace,
          TireDegradation |-> pace.tire_deg,
          TopSpeed |-> pace.top_speed,
          RainProbability |-> pace.rain_prob,
          TargetPosition |-> row.Position] :
            avg_pos \in calculate_driver_season_avg_position(d_hist, round_num, DefaultWindow),
            delta_teammate \in
                calculate_qualifying_delta_to_teammate(session, row.DriverNumber, teammate_code),
            pace \in PracticeFeatures(practice_session, row.Abbreviation),
            rel_score \in calculate_reliability_score(c_hist, round_num, ReliabilityWindow) }

\* the loop building the list from the front: the rows come out in reverse
RECURSIVE FeatureListsReversed(_, _, _, _, _)
FeatureListsReversed(session, driver_history, constructor_history, practice_session, k) ==
    IF k = 0 THEN { <<>> }
    ELSE { <<f>> \o fs :
             fs \in FeatureListsReversed(session, driver_history, constructor_history,
                                         practice_session, k - 1),
             f \in FeatureRows(session, driver_history, constructor_history,
                               practice_session, session.results.rows[k]) }

RECURSIVE FeatureLists(_, _, _, _, _)
FeatureLists(session, driver_history, constructor_history, practice_session, k) ==
    IF k = 0 THEN { <<>> }
    ELSE { Append(fs, f) :
             fs \in FeatureLists(session, driver_history, constructor_history,
                                 practice_session, k - 1),
             f \in FeatureRows(session, driver_history, constructor_history,
                               practice_session, session.results.rows[k]) }

\* The set of outcomes of extract_features_for_session: the rows of the
\* returned frame, or raised = TRUE when an exception leaves the function
\* (session.laps read for a teammate delta while the laps are not loaded).
extract_features_for_session(session, driver_history, constructor_history, practice_session) ==
    IF ~session.results.ok THEN { [raised |-> FALSE, rows |-> <<>>] }
    ELSE IF /\ ~session.laps_loaded
            /\ \E i \in 1..Len(session.results.rows) :
                 TeammateCode(session.results.rows, session.results.rows[i].TeamName,
                              session.results.rows[i].DriverNumber) # NoTeammate
    THEN { [raised |-> TRUE, rows |-> <<>>] }
    ELSE { [raised |-> FALSE, rows |-> fs] :
             fs \in FeatureLists(session, driver_history, constructor_history,
                                 practice_session, Len(session.results.rows)) }

\* ---------------------------------------------------------------- inputs
sMonacoGrandPrix == <<"M","o","n","a","c","o"," ","G","r","a","n","d"," ","P","r","i","x">>
sItalianGrandPrix == <<"I","t","a","l","i","a","n"," ","G","r","a","n","d"," ","P","r","i","x">>

Result(num, abbr, team, grid, pos, status) ==
    [DriverNumber |-> num, Abbreviation |-> abbr, TeamName |-> team,
     GridPosition |-> grid, Position |-> pos, Status |-> status]

Classifications ==
    { <<>>,
      <<Result("16", "LEC", "Ferrari", Num(1), Num(1), sFinished)>>,
      <<Result("1", "VER", "Red Bull Racing", Num(2), Num(1), sFinished),
        Result("11", "PER", "Red Bull Racing", None, NaN, sEngine)>>,
      <<Result("1", "VER", "Red Bull Racing", Num(1), Num(2), sFinished),
        Result("16", "LEC", "Ferrari", Num(3), Num(1), sFinished),
        Result("11", "PER", "Red Bull Racing", Num(2), Num(3), sPlus1Lap)>> }

ClassifiedLaps ==
    << Lap("VER", "1", Num(80250), 1, "1", NaN), Lap("PER", "11", Num(80000), 1, "1", NaN),
       Lap("VER", "1", Num(81000), 1, "1", NaN), Lap("LEC", "16", Num(79000), 1, "1", NaN) >>

ClassifiedSession(round, name, weather, ok, rows, loaded) ==
    [event |-> [RoundNumber |-> round, EventName |-> name], weather |-> weather,
     results |-> [ok |-> ok, rows |-> rows], laps_loaded |-> loaded, laps |-> ClassifiedLaps]

\* every classification, round, event and failure ...
ClassifiedSessions ==
    { ClassifiedSession(r, n, w, ok, IF ok THEN c ELSE <<>>, ld) :
        r \in CurrentRounds, n \in {sMonacoGrandPrix, sItalianGrandPrix},
        w \in {Weather("table", <<TRUE, FALSE>>), Weather("raises", <<>>)},
        ok \in BOOLEAN, c \in Classifications, ld \in BOOLEAN }

\* ... and one session for the histories of every shape
TypicalSession ==
    ClassifiedSession(MaxRound + 1, sMonacoGrandPrix, Weather("table", <<TRUE, FALSE>>), TRUE,
                      <<Result("1", "VER", "Red Bull Racing", Num(2), Num(1), sFinished),
                        Result("11", "PER", "Red Bull Racing", None, NaN, sEngine)>>, TRUE)

HistoryRow(drv, team, r, o) ==
    [Driver |-> drv, TeamName |-> team, RoundNumber |-> r,
     Position |-> o.Position, Status |-> o.Status]

\* histories of every shape: the two team mates' results, round by round
SeasonHistories ==
    SeqsUpTo({ HistoryRow("VER", "Red Bull Racing", r, [Position |-> Num(3), Status |-> sFinished]) :
                 r \in Rounds }
             \cup
             { HistoryRow("PER", "Red Bull Racing", r, [Position |-> NaN, Status |-> sEngine]) :
                 r \in Rounds }, MaxHist)

FewHistories ==
    { <<>>,
      << HistoryRow("VER", "Red Bull Racing", 1, [Position |-> Num(1), Status |-> sFinished]),
         HistoryRow("PER", "Red Bull Racing", 1, [Position |-> NaN, Status |-> sGearbox]),
         HistoryRow("LEC", "Ferrari", 1, [Position |-> Num(2), Status |-> sFinished]) >> }

FewPracticeSessions ==
    { NoSession,
      Session(Weather("table", <<TRUE, FALSE, FALSE>>), TRUE,
              <<Lap("VER", "1", Num(90000), 1, "1", Num(310)),
                Lap("PER", "11", Num(90500), 1, "1", Num(305))>>, TRUE, TRUE, Telemetry(TRUE)),
      Session(Weather("table", <<TRUE>>), FALSE, <<>>, TRUE, TRUE, Telemetry(TRUE)),
      Session(Weather("none", <<>>), TRUE,
              <<Lap("VER", "1", Num(90000), 1, "1", NaN)>>, FALSE, TRUE, Telemetry(FALSE)) }

\* ---------------------------------------------------------------- SpecProcessor
InitProcessor ==
    /\ pc = "call"
    /\ \/ \E s \in ClassifiedSessions, h \in FewHistories, p \in FewPracticeSessions :
             call = [fn |-> "extract_features", session |-> s, driver_history |-> h,
                     constructor_history |-> h, practice_session |-> p]
       \/ \E h \in SeasonHistories, p \in FewPracticeSessions :
             call = [fn |-> "extract_features", session |-> TypicalSession,
                     driver_history |-> h, constructor_history |-> h,
                     practice_session |-> p]
    /\ ret = NoRet
    /\ predictions = <<>>

ExtractFeatures ==
    /\ pc = "call"
    /\ call.fn = "extract_features"
    /\ ret' \in extract_features_for_session(call.session, call.driver_history,
                                             call.constructor_history, call.practice_session)
    /\ pc' = "done"
    /\ UNCHANGED <<call, predictions>>

NextProcessor == ExtractFeatures

SpecProcessor == InitProcessor /\ [][NextProcessor]_vars

\* ---------------------------------------------------------------- claims: rain probability
FeaturesDone == pc = "done" /\ call.fn = "extract_features" /\ ~ret.raised

\* C10: every feature row carries a RainProbability that is a number in
\* [0, 1]: the fraction of the practice session's weather samples flagged
\* raining, the same for every driver, 0.0 without weather data.
C10_RowsCarryRainProbability ==
    FeaturesDone =>
        \A i \in 1..Len(ret.rows) :
            /\ IsNum(ret.rows[i].RainProbability)
            /\ 0 <= ret.rows[i].RainProbability.n
            /\ ret.rows[i].RainProbability.n <= ret.rows[i].RainProbability.d
            /\ ret.rows[i].RainProbability = ret.rows[1].RainProbability

\* ---------------------------------------------------------------- predict.py
\* The Predictor is [quali_model, sprint_model, race_model, history_df].  An
\* estimator is a persisted, opaque, deterministic function of the feature
\* row it is given; within one call the feature row of a driver is fixed, so
\* each estimator is held as the table of its outputs per driver.
\* history_df is [columns, rows], a row being
\* [Driver, SessionType, TargetPosition, ReliabilityScore]; the Driver cell is
\* [k |-> "int", v |-> 1] or [k |-> "str", v |-> "1"] as read_csv typed it.
\* The season's data is world = [Q, FP2, FP1]: per session type what
\* fastf1 would load, NoQuali / NoSession when the load fails.  A qualifying
\* session is [present, event, weather, results].

Digit == <<"0", "1", "2", "3", "4", "5", "6", "7", "8", "9">>

\* str() of a non-negative integer
RECURSIVE IntToStr(_)
IntToStr(n) ==
    IF n < 10 THEN Digit[n + 1] ELSE IntToStr(n \div 10) \o Digit[(n % 10) + 1]

\* self.history_df['Driver'].astype(str), one cell
AsTypeStr(cell) == IF cell.k = "int" THEN IntToStr(cell.v) ELSE cell.v

driver_map ==
    "VER" :> "1" @@ "PER" :> "11" @@ "LEC" :> "16" @@ "SAI" :> "55" @@
    "NOR" :> "4" @@ "PIA" :> "81" @@ "HAM" :> "44" @@ "RUS" :> "63" @@
    "ALO" :> "14" @@ "STR" :> "18" @@ "TSU" :> "22" @@ "RIC" :> "3" @@
    "ALB" :> "23" @@ "SAR" :> "2" @@ "ZHO" :> "24" @@ "BOT" :> "77" @@
    "MAG" :> "20" @@ "HUL" :> "27" @@ "GAS" :> "10" @@ "OCO" :> "31" @@
    "COL" :> "43" @@ "BEA" :> "87" @@ "LAW" :> "30" @@ "DOO" :> "12"

DriverStats(a, d, r) == [avg_pos |-> a, dnf_rate |-> d, rel_score |-> r]

\* return 5.0, 0.1, 0.95
DefaultStats == DriverStats(Num(5), Rat(1, 10), Rat(95, 100))

StatsWindow == 5

calculate_driver_stats(self, driver_name) ==
    LET driver_id == IF driver_name \in DOMAIN driver_map THEN driver_map[driver_name]
                     ELSE driver_name
        d_hist == SelectSeq(self.history_df.rows, LAMBDA h : AsTypeStr(h.Driver) = driver_id)
        r_hist == SelectSeq(d_hist, LAMBDA h : h.SessionType = "Race")
        valid_pos == SelectSeq(Column(r_hist, "TargetPosition"), IsNum)
        dnf_count == Len(SelectSeq(Column(r_hist, "TargetPosition"), IsNaN))
    IN IF self.history_df.rows = <<>> THEN DefaultStats
       ELSE IF d_hist = <<>> THEN DefaultStats
       ELSE IF r_hist = <<>> THEN DefaultStats
       ELSE IF valid_pos = <<>> THEN DefaultStats
       ELSE DriverStats(SeriesMean(DfTail(valid_pos, StatsWindow)),
                        Rat(dnf_count, Len(r_hist)),
                        IF "ReliabilityScore" \in self.history_df.columns
                        THEN d_hist[Len(d_hist)].ReliabilityScore
                        ELSE Rat(95, 100))

NoQuali ==
    [present |-> FALSE, event |-> [EventFormat |-> "conventional"],
     weather |-> Weather("none", <<>>), results |-> [rows |-> <<>>]]

\* loader.get_session_data: None when the load raises; the weather table is
\* there only when it was asked for
get_session_data(world, session_type, load_telemetry, load_weather) ==
    LET session == world[session_type]
    IN IF ~session.present THEN session
       ELSE IF load_weather THEN session
       ELSE [session EXCEPT !.weather = Weather("raises", <<>>)]

PredictTrackTemp == 30

NotApplicable == "N/A"

\* the rows handed to the qualifying / sprint estimator and to the race estimator
QualiFeatures(track_temp, overtake_diff, stats) ==
    [TrackTemp |-> track_temp, OvertakeDifficulty |-> overtake_diff,
     DriverAvgPos |-> stats.avg_pos, DriverDNFRate |-> stats.dnf_rate,
     QualiDeltaTeammate |-> Num(0), ReliabilityScore |-> stats.rel_score]

RaceFeatures(track_temp, overtake_diff, stats, grid_pos, pace, rain_prob) ==
    [TrackTemp |-> track_temp, OvertakeDifficulty |-> overtake_diff,
     DriverAvgPos |-> stats.avg_pos, DriverDNFRate |-> stats.dnf_rate,
     ReliabilityScore |-> stats.rel_score, QualiDeltaTeammate |-> Num(0),
     GridPosition |-> grid_pos, RacePace |-> pace.race_pace,
     TireDegradation |-> pace.tire_deg, TopSpeed |-> pace.top_speed,
     RainProbability |-> rain_prob]

\* float('inf'), a value fillna leaves in place
Inf == [k |-> "inf", n |-> 0, d |-> 1]

\* self.feature_names of QualifyingModel, SprintModel and RaceModel
QualiFeatureNames ==
    << "TrackTemp", "OvertakeDifficulty", "DriverAvgPos", "DriverDNFRate",
       "QualiDeltaTeammate", "ReliabilityScore" >>

SprintFeatureNames ==
    << "TrackTemp", "OvertakeDifficulty", "DriverAvgPos", "DriverDNFRate", "ReliabilityScore" >>

RaceFeatureNames ==
    << "TrackTemp", "OvertakeDifficulty", "DriverAvgPos", "DriverDNFRate", "ReliabilityScore",
       "QualiDeltaTeammate", "GridPosition", "RacePace", "TireDegradation", "TopSpeed",
       "RainProbability" >>

\* variant: the declared columns as they are, missing values included
ModelInputUnfilled(feature_names, X) == [i \in 1..Len(feature_names) |-> X[feature_names[i]]]

\* X[self.feature_names].fillna(0), one row: the values in the declared order
ModelInput(feature_names, X) ==
    [i \in 1..Len(feature_names) |->
        IF X[feature_names[i]] \in {NaN, None} THEN Num(0) ELSE X[feature_names[i]]]

\* An estimator is [table, broken, raises_on]: predict raises on every row
\* when broken, and on a row holding a value of raises_on; otherwise its
\* value for this driver's row is table[driver].
EstimatorRaises(model, input) ==
    model.broken \/ \E i \in 1..Len(input) : input[i] \in model.raises_on

\* model.predict(features)[0] for the features of this driver
EstimatorPredict(model, input, driver_name) == model.table[driver_name]

\* race_pace, tire_deg, top_speed with None replaced by NaN; rain_prob as returned
PacePrediction(practice_session, driver_name) ==
    LET missing(v) == IF v = None THEN NaN ELSE v
    IN { [race_pace |-> missing(p.race_pace), tire_deg |-> missing(p.tire_deg),
          top_speed |-> missing(p.top_speed), rain_prob |-> p.rain_prob] :
           p \in IF practice_session.present
                 THEN calculate_race_pace(practice_session, driver_name, DefaultMinLaps)
                 ELSE { RacePaceResult(None, None, None, None, FALSE) } }

\* one run of predict_driver: the record returned (raised = FALSE) or the
\* exception left uncaught (raised = TRUE), with what the estimators were
\* given: the rows, <<>> for an estimator that was not called
DriverRun(raised, value, quali_input, sprint_input, race_input) ==
    [raised |-> raised, value |-> value, quali_input |-> quali_input,
     sprint_input |-> sprint_input, race_input |-> race_input]

\* The set of runs predict_driver can make.
predict_driver(self, world, driver_name, grand_prix, actual_quali_pos, practice_session, weather_override) ==
    LET session == get_session_data(world, "Q", TRUE, TRUE)
        track_temp == IF session.present THEN calculate_track_temp_avg(session)
                      ELSE Num(PredictTrackTemp)
        overtake_diff == Num(get_track_overtake_difficulty(grand_prix))
        stats == calculate_driver_stats(self, driver_name)
        quali_features == QualiFeatures(track_temp, overtake_diff, stats)
        quali_input == ModelInput(QualiFeatureNames, quali_features)
        q_pred == EstimatorPredict(self.quali_model, quali_input, driver_name)
        final_quali_pos == IF actual_quali_pos # None THEN actual_quali_pos ELSE q_pred
        is_sprint == session.present /\ session.event.EventFormat = "sprint"
        sprint_input == IF is_sprint THEN ModelInput(SprintFeatureNames, quali_features)
                        ELSE <<>>
    IN { LET rain_prob == IF weather_override # None THEN weather_override
                          ELSE IF pace.rain_prob = None THEN Num(0)
                          ELSE pace.rain_prob
             race_features == RaceFeatures(track_temp, overtake_diff, stats,
                                           final_quali_pos, pace, rain_prob)
             race_input == ModelInput(RaceFeatureNames, race_features)
         IN IF EstimatorRaises(self.quali_model, quali_input)
            THEN DriverRun(TRUE, NoRet, quali_input, <<>>, <<>>)
            ELSE IF is_sprint /\ EstimatorRaises(self.sprint_model, sprint_input)
            THEN DriverRun(TRUE, NoRet, quali_input, sprint_input, <<>>)
            ELSE IF EstimatorRaises(self.race_model, race_input)
            THEN DriverRun(TRUE, NoRet, quali_input, sprint_input, race_input)
            ELSE DriverRun(FALSE,
                   [Qualifying_Position |-> final_quali_pos,
                    Sprint_Class |-> IF is_sprint
                                     THEN EstimatorPredict(self.sprint_model, sprint_input,
                                                           driver_name)
                                     ELSE NotApplicable,
                    Race_Score |-> EstimatorPredict(self.race_model, race_input, driver_name),
                    Grid_Position |-> final_quali_pos,
                    Race_Pace |-> pace.race_pace,
                    Tire_Degradation |-> pace.tire_deg,
                    Top_Speed |-> pace.top_speed,
                    Rain_Probability |-> rain_prob],
                   quali_input, sprint_input, race_input) :
           pace \in PacePrediction(practice_session, driver_name) }

\* the fallback list of predict_race
FallbackDrivers ==
    << "VER", "PER", "LEC", "SAI", "NOR", "PIA", "HAM", "RUS", "ALO", "STR",
       "TSU", "RIC", "ALB", "SAR", "ZHO", "BOT", "MAG", "HUL", "GAS", "OCO" >>

\* list.sort(key=Race_Score, reverse=True) is stable: a record goes behind
\* every record already placed whose score is not lower.  Ascending sort
\* followed by a reversal turns the order of equal scores around.
RECURSIVE SortAscendingReversed(_)
SortAscendingReversed(ps) ==
    IF ps = <<>> THEN <<>>
    ELSE LET sorted == SortAscendingReversed(SubSeq(ps, 1, Len(ps) - 1))
             x == ps[Len(ps)]
             k == Cardinality({ i \in 1..Len(sorted) :
                                  RLess(x.Race_Score, sorted[i].Race_Score) })
         IN SubSeq(sorted, 1, k) \o <<x>> \o SubSeq(sorted, k + 1, Len(sorted))

RECURSIVE SortByRaceScore(_)
SortByRaceScore(ps) ==
    IF ps = <<>> THEN <<>>
    ELSE LET sorted == SortByRaceScore(SubSeq(ps, 1, Len(ps) - 1))
             x == ps[Len(ps)]
             k == Cardinality({ i \in 1..Len(sorted) :
                                  ~RLess(sorted[i].Race_Score, x.Race_Score) })
         IN SubSeq(sorted, 1, k) \o <<x>> \o SubSeq(sorted, k + 1, Len(sorted))

\* for i, p in enumerate(predictions): p['Predicted_Position'] = i + 1
AssignRanks(ps) ==
    [i \in 1..Len(ps) |->
        [f \in DOMAIN ps[i] \cup {"Predicted_Position"} |->
            IF f = "Predicted_Position" THEN i ELSE ps[i][f]]]

\* the driver list the loop runs over; an absent list is the empty list
RaceDrivers(session_q, driver_list) ==
    IF driver_list # <<>> THEN driver_list
    ELSE IF session_q.present /\ session_q.results.rows # <<>>
    THEN Column(session_q.results.rows, "Abbreviation")
    ELSE FallbackDrivers

\* actual_pos of the loop body
ActualPos(session_q, driver) ==
    LET res == SelectSeq(session_q.results.rows, LAMBDA r : r.Abbreviation = driver)
    IN IF session_q.present /\ session_q.results.rows # <<>> /\ res # <<>>
       THEN res[1].Position
       ELSE None

\* the loop of predict_race after k drivers: the list built so far and the
\* runs made, raised once a run left an exception
RECURSIVE PredictionLists(_, _, _, _, _, _, _, _)
PredictionLists(self, world, event_name, session_q, practice_session, weather_override, drivers, k) ==
    IF k = 0 THEN { [raised |-> FALSE, ps |-> <<>>, runs |-> <<>>] }
    ELSE UNION {
           IF before.raised THEN { before }
           ELSE { [raised |-> run.raised,
                   ps |-> IF run.raised THEN before.ps
                          ELSE Append(before.ps,
                                      [f \in DOMAIN run.value \cup {"Driver"} |->
                                          IF f = "Driver" THEN drivers[k] ELSE run.value[f]]),
                   runs |-> Append(before.runs, run)] :
                    run \in predict_driver(self, world, drivers[k], event_name,
                                           ActualPos(session_q, drivers[k]), practice_session,
                                           weather_override) } :
             before \in PredictionLists(self, world, event_name, session_q, practice_session,
                                        weather_override, drivers, k - 1) }

\* The set of outcomes of predict_race: the ranked list (raised = FALSE) or
\* the exception of a predict_driver call, with the runs made.
predict_race(self, world, event_name, driver_list, weather_override) ==
    LET session_q == get_session_data(world, "Q", FALSE, FALSE)
        drivers == RaceDrivers(session_q, driver_list)
        fp2 == get_session_data(world, "FP2", TRUE, TRUE)
        practice_session == IF fp2.present THEN fp2
                            ELSE get_session_data(world, "FP1", TRUE, TRUE)
    IN { [raised |-> loop.raised,
          value |-> IF loop.raised THEN <<>> ELSE AssignRanks(SortByRaceScore(loop.ps)),
          runs |-> loop.runs] :
           loop \in PredictionLists(self, world, event_name, session_q, practice_session,
                                    weather_override, drivers, Len(drivers)) }

\* ---------------------------------------------------------------- inputs
MaxDrivers == 3
MaxScore == 2

MainDrivers == {"VER", "PER", "LEC"}

\* the drivers of the fallback list and one the predictor does not know
AllDrivers == { FallbackDrivers[i] : i \in 1..Len(FallbackDrivers) } \cup {"ANT"}

Reverse(s) == [i \in 1..Len(s) |-> s[Len(s) + 1 - i]]

Estimator(table, broken, raises_on) ==
    [table |-> table, broken |-> broken, raises_on |-> raises_on]

\* race estimators: every score table over the main drivers ...
RaceTables ==
    { [n \in AllDrivers |-> IF n \in MainDrivers THEN Num(f[n]) ELSE Num(0)] :
        f \in [MainDrivers -> 0..MaxScore] }

\* ... and one scoring the fallback list 19, 18, ..., 0
GridScores ==
    [n \in AllDrivers |->
        IF n = "ANT" THEN Num(0)
        ELSE Num(Len(FallbackDrivers)
                 - (CHOOSE i \in 1..Len(FallbackDrivers) : FallbackDrivers[i] = n))]

RaceModels == { Estimator(t, FALSE, {}) : t \in RaceTables \cup {GridScores} }

\* a race estimator that cannot be used, and one that rejects infinite values
FailingRaceModels == { Estimator(GridScores, TRUE, {}), Estimator(GridScores, FALSE, {Inf}) }

QualiModel ==
    Estimator([n \in AllDrivers |-> IF n = "VER" THEN Rat(3, 2) ELSE Rat(21, 4)], FALSE, {})

SprintModel ==
    Estimator([n \in AllDrivers |->
                  IF n = "VER" THEN "Top3" ELSE IF n = "PER" THEN "Points" ELSE "NoPoints"],
              FALSE, {})

PersistedRow(drv, type, pos, rel) ==
    [Driver |-> drv, SessionType |-> type, TargetPosition |-> pos, ReliabilityScore |-> rel]

PersistedHistories ==
    { [columns |-> {}, rows |-> <<>>],
      [columns |-> {"Driver", "SessionType", "TargetPosition", "ReliabilityScore"},
       rows |-> << PersistedRow([k |-> "int", v |-> 1], "Qualifying", Num(1), Num(1)),
                   PersistedRow([k |-> "int", v |-> 1], "Race", Num(2), Num(1)),
                   PersistedRow([k |-> "int", v |-> 11], "Race", NaN, Rat(1, 2)),
                   PersistedRow([k |-> "int", v |-> 1], "Race", NaN, Rat(1, 2)) >>] }

Predictor(race_model, history_df) ==
    [quali_model |-> QualiModel, sprint_model |-> SprintModel, race_model |-> race_model,
     history_df |-> history_df]

QualiSession(format, weather, rows) ==
    [present |-> TRUE, event |-> [EventFormat |-> format], weather |-> weather,
     results |-> [rows |-> rows]]

QualiSessions20 ==
    [i \in 1..Len(FallbackDrivers) |->
        Result("0", Reverse(FallbackDrivers)[i], "Team", None, Num(i), sFinished)]

\* the event formats predict_driver's comment counts as a sprint weekend
SprintFormats == {"sprint", "sprint_shootout", "sprint_qualifying"}

\* a sprint weekend whose qualifying session does not load
NoQualiSprint == [NoQuali EXCEPT !.event = [EventFormat |-> "sprint"]]

QualiWorlds ==
    { NoQuali, NoQualiSprint,
      QualiSession("sprint_qualifying", Weather("table", <<FALSE>>),
                   <<Result("1", "VER", "Red Bull Racing", None, Num(1), sFinished)>>),
      QualiSession("conventional", Weather("table", <<FALSE>>), <<>>),
      QualiSession("sprint", Weather("table", <<TRUE, FALSE>>),
                   <<Result("16", "LEC", "Ferrari", None, Num(1), sFinished),
                     Result("1", "VER", "Red Bull Racing", None, Num(2), sFinished),
                     Result("11", "PER", "Red Bull Racing", None, NaN, sFinished)>>),
      QualiSession("conventional", Weather("none", <<>>), QualiSessions20) }

World(q, fp2, fp1) == [Q |-> q, FP2 |-> fp2, FP1 |-> fp1]

BareWorld == World(NoQuali, NoSession, NoSession)

\* ---------------------------------------------------------------- SpecRank
InitRank ==
    /\ pc = "call"
    /\ \/ \E m \in RaceModels, l \in SeqsUpTo(MainDrivers, MaxDrivers) :
             call = [fn |-> "predict_race", self |-> Predictor(m, [columns |-> {}, rows |-> <<>>]),
                     world |-> BareWorld, event_name |-> sMonacoGrandPrix,
                     driver_list |-> l, weather_override |-> None]
       \/ \E m \in {Estimator(GridScores, FALSE, {}),
                     Estimator([n \in AllDrivers |-> Num(1)], FALSE, {})} \cup FailingRaceModels,
             h \in PersistedHistories,
             l \in {<<>>, <<"PER", "VER">>, Reverse(FallbackDrivers)},
             q \in QualiWorlds, fp2 \in FewPracticeSessions,
             fp1 \in {NoSession, Session(Weather("table", <<TRUE>>), TRUE, <<>>, TRUE, TRUE,
                                         Telemetry(TRUE))},
             w \in {None, Rat(1, 2), Inf} :
             call = [fn |-> "predict_race", self |-> Predictor(m, h),
                     world |-> World(q, fp2, fp1), event_name |-> sItalianGrandPrix,
                     driver_list |-> l, weather_override |-> w]
    /\ ret = NoRet
    /\ predictions = <<>>

PredictRace ==
    /\ pc = "call"
    /\ call.fn = "predict_race"
    /\ ret' \in predict_race(call.self, call.world, call.event_name,
                            call.driver_list, call.weather_override)
    /\ predictions' = ret'.value
    /\ pc' = IF ret'.raised THEN "raised" ELSE "done"
    /\ UNCHANGED call

\* the sort and the rank assignment of predict_race, run on the returned list
RankAgain ==
    /\ pc = "done"
    /\ call.fn = "predict_race"
    /\ predictions' = AssignRanks(SortByRaceScore(predictions))
    /\ pc' = "ranked"
    /\ UNCHANGED <<call, ret>>

NextRank == PredictRace \/ RankAgain

SpecRank == InitRank /\ [][NextRank]_vars

\* ---------------------------------------------------------------- claims: ranking
RaceDone == pc \in {"done", "ranked"} /\ call.fn = "predict_race"

\* the drivers in input order and the score of the k-th of them
InputDrivers ==
    RaceDrivers(get_session_data(call.world, "Q", FALSE, FALSE), call.driver_list)

InputScore(k) == call.self.race_model.table[InputDrivers[k]]

\* where the k-th input record belongs: behind every higher score and behind
\* every equal score that came earlier in the input
ExpectedPosition(k) ==
    1 + Cardinality({ m \in 1..Len(InputDrivers) :
                        \/ RLess(InputScore(k), InputScore(m))
                        \/ InputScore(m) = InputScore(k) /\ m < k })

RankingInv ==
    RaceDone =>
        /\ Len(predictions) = Len(InputDrivers)
        /\ \A i \in 1..Len(predictions) : predictions[i].Predicted_Position = i
        /\ \A i \in 1..Len(predictions) : \A j \in 1..Len(predictions) :
              i < j => ~RLess(predictions[i].Race_Score, predictions[j].Race_Score)
        /\ \A k \in 1..Len(InputDrivers) :
              /\ predictions[ExpectedPosition(k)].Driver = InputDrivers[k]
              /\ predictions[ExpectedPosition(k)].Race_Score = InputScore(k)
        /\ ( /\ Len(predictions) = 20
             /\ \A s \in 0..19 : \E i \in 1..20 : predictions[i].Race_Score = Num(s) )
           => /\ predictions[1].Race_Score = Num(19)
              /\ predictions[20].Race_Score = Num(0)

\* C1: predict_race returns the records sorted by Race_Score descending,
\* equal scores in input order, Predicted_Position being the 1-based index
\* (so exactly 1..N; scores 19..0 give position 1 to 19 and position 20 to
\* 0), and sorting and ranking the returned list again changes nothing.
C1_Ranking ==
    /\ []RankingInv
    /\ [][RankAgain => predictions' = predictions]_vars

\* ranked again: three records of different drivers, two of them tied, given
\* in an order that is not the ranked one
C1_Witness ==
    /\ pc = "ranked"
    /\ call.fn = "predict_race"
    /\ Len(predictions) = 3
    /\ predictions[1].Race_Score # predictions[2].Race_Score
    /\ predictions[2].Race_Score = predictions[3].Race_Score
    /\ predictions[2].Driver # predictions[3].Driver
    /\ call.driver_list[1] = predictions[2].Driver
    /\ call.driver_list[2] = predictions[3].Driver

\* ---------------------------------------------------------------- claims: feature rows
ExtractDone == pc = "done" /\ call.fn = "extract_features"

\* the classification the call can read: none when session.results raises
Classification ==
    IF call.session.results.ok THEN call.session.results.rows ELSE <<>>

C11_WitnessUnavailable ==
    /\ ExtractDone
    /\ ~call.session.results.ok
    /\ ret = [raised |-> FALSE, rows |-> <<>>]

\* ---------------------------------------------------------------- claims: grid position
RaceCalled == pc \in {"done", "raised", "ranked"} /\ call.fn = "predict_race"

QualiAvailable == call.world.Q.present /\ call.world.Q.results.rows # <<>>

\* the rows of the qualifying classification for a driver
QualiRows(driver) ==
    SelectSeq(call.world.Q.results.rows, LAMBDA r : r.Abbreviation = driver)

\* the value fed to an estimator for one of its declared features
Fed(feature_names, input, feature) ==
    input[CHOOSE i \in 1..Len(feature_names) : feature_names[i] = feature]

\* the grid position a run is due: the recorded one, else the predicted one
DueGridPosition(driver, recorded) ==
    IF recorded THEN QualiRows(driver)[1].Position
    ELSE call.self.quali_model.table[driver]

GridPositionIsDue(k, recorded) ==
    LET run == ret.runs[k]
        due == DueGridPosition(InputDrivers[k], recorded)
    IN /\ run.race_input # <<>> => Fed(RaceFeatureNames, run.race_input, "GridPosition") = due
       /\ ~run.raised => run.value.Qualifying_Position = due /\ run.value.Grid_Position = due

\* C12: with qualifying available, the GridPosition fed to the race model is
\* the driver's recorded qualifying position when there is one and the
\* qualifying model's prediction when there is none, and the record's
\* Qualifying_Position and Grid_Position are that same value.
C12_GridPosition ==
    (RaceCalled /\ QualiAvailable) =>
        \A k \in 1..Len(ret.runs) :
            GridPositionIsDue(k, /\ QualiRows(InputDrivers[k]) # <<>>
                                 /\ IsNum(QualiRows(InputDrivers[k])[1].Position))

\* the same for the drivers whose classification row, if any, holds a position
GridPositionWhenRecorded ==
    (RaceCalled /\ QualiAvailable) =>
        \A k \in 1..Len(ret.runs) :
            (QualiRows(InputDrivers[k]) # <<>> => IsNum(QualiRows(InputDrivers[k])[1].Position))
                => GridPositionIsDue(k, QualiRows(InputDrivers[k]) # <<>>)

\* a classified driver without a position: 0 is fed, NaN is reported
GridPositionMissing ==
    /\ RaceCalled /\ QualiAvailable
    /\ \E k \in 1..Len(ret.runs) :
          /\ QualiRows(InputDrivers[k]) # <<>>
          /\ QualiRows(InputDrivers[k])[1].Position = NaN
          /\ ~ret.runs[k].raised
          /\ Fed(RaceFeatureNames, ret.runs[k].race_input, "GridPosition") = Num(0)
          /\ ret.runs[k].value.Grid_Position = NaN

\* ---------------------------------------------------------------- predict.py: predict_next_session
\* next_event is [present, EventName]; the weather service answers
\* [raises, rain_probability], raises standing for any exception between the
\* forecast request and the line that prints it.  No driver named: "".

NoDriver == ""

\* one run of predict_next_session.  kind says what came back: "none",
\* "record" (one driver's dict), "list" (the ranked field) or "raised" (an
\* exception left the call).  branch is the branch the probe chose, fallback
\* whether the except handler ran, weather_consulted whether the forecast was
\* requested, runs the predict_driver runs made, in order.
SessionRun(kind, value, branch, fallback, weather_consulted, runs) ==
    [kind |-> kind, value |-> value, branch |-> branch, fallback |-> fallback,
     weather_consulted |-> weather_consulted, runs |-> runs]

\* variant: the handler lets the exception go
SessionFallbackAborts(self, world, event_name, driver_name, branch, weather_consulted, runs) ==
    { SessionRun("raised", NoRet, branch, TRUE, weather_consulted, runs) }

\* except Exception: predict for the event already identified
SessionFallback(self, world, event_name, driver_name, branch, weather_consulted, runs) ==
    IF driver_name # NoDriver
    THEN { SessionRun(IF run.raised THEN "raised" ELSE "record", run.value, branch, TRUE,
                      weather_consulted, Append(runs, run)) :
             run \in predict_driver(self, world, driver_name, event_name, None, NoSession, None) }
    ELSE { SessionRun(IF o.raised THEN "raised" ELSE "list", o.value, branch, TRUE,
                      weather_consulted, runs \o o.runs) :
             o \in predict_race(self, world, event_name, <<>>, None) }

\* "Qualifying appears to be finished. Predicting Race."
RaceBranch(self, world, weather_service, event_name, driver_list, driver_name, weather_override) ==
    LET consulted == weather_override = None
        rain == IF consulted THEN weather_service.rain_probability ELSE weather_override
    IN IF consulted /\ weather_service.raises
       THEN SessionFallback(self, world, event_name, driver_name, "race", TRUE, <<>>)
       ELSE UNION {
              IF all_preds.raised
              THEN SessionFallback(self, world, event_name, driver_name, "race", consulted,
                                   all_preds.runs)
              ELSE IF driver_name # NoDriver
              THEN LET driver_pred ==
                           SelectSeq(all_preds.value, LAMBDA p : p.Driver = driver_name)
                   IN { IF driver_pred # <<>>
                        THEN SessionRun("record", driver_pred[1], "race", FALSE, consulted,
                                        all_preds.runs)
                        ELSE SessionRun("none", None, "race", FALSE, consulted,
                                        all_preds.runs) }
              ELSE { SessionRun("list", all_preds.value, "race", FALSE, consulted,
                                all_preds.runs) } :
                all_preds \in predict_race(self, world, event_name, driver_list, rain) }

\* "Qualifying not yet finished. Predicting Qualifying."
PendingBranch(self, world, event_name, driver_name) ==
    IF driver_name # NoDriver
    THEN UNION {
           IF run.raised
           THEN SessionFallback(self, world, event_name, driver_name, "pending", FALSE, <<run>>)
           ELSE { SessionRun("record", run.value, "pending", FALSE, FALSE, <<run>>) } :
             run \in predict_driver(self, world, driver_name, event_name, None, NoSession, None) }
    ELSE UNION {
           IF o.raised
           THEN SessionFallback(self, world, event_name, driver_name, "pending", FALSE, o.runs)
           ELSE { SessionRun("list", o.value, "pending", FALSE, FALSE, o.runs) } :
             o \in predict_race(self, world, event_name, <<>>, None) }

\* variant: takes the race branch as soon as the qualifying session loads
NextSessionAnyClassification(self, next_event, world, weather_service, driver_name, weather_override) ==
    IF ~next_event.present THEN { SessionRun("none", None, "none", FALSE, FALSE, <<>>) }
    ELSE LET session_q == get_session_data(world, "Q", FALSE, FALSE)
         IN IF session_q.present
            THEN RaceBranch(self, world, weather_service, next_event.EventName,
                            IF session_q.results.rows # <<>>
                            THEN Column(session_q.results.rows, "Abbreviation")
                            ELSE FallbackDrivers, driver_name, weather_override)
            ELSE PendingBranch(self, world, next_event.EventName, driver_name)

\* The set of runs predict_next_session can make.
predict_next_session(self, next_event, world, weather_service, driver_name, weather_override) ==
    IF ~next_event.present THEN { SessionRun("none", None, "none", FALSE, FALSE, <<>>) }
    ELSE LET session_q == get_session_data(world, "Q", FALSE, FALSE)
             quali_done == session_q.present /\ session_q.results.rows # <<>>
             driver_list == IF quali_done THEN Column(session_q.results.rows, "Abbreviation")
                            ELSE FallbackDrivers
         IN IF quali_done
            THEN RaceBranch(self, world, weather_service, next_event.EventName, driver_list,
                            driver_name, weather_override)
            ELSE PendingBranch(self, world, next_event.EventName, driver_name)

\* ---------------------------------------------------------------- inputs
NextEvents ==
    { [present |-> FALSE, EventName |-> <<>>], [present |-> TRUE, EventName |-> sMonacoGrandPrix] }

WeatherServices ==
    { [raises |-> TRUE, rain_probability |-> Num(0)],
      [raises |-> FALSE, rain_probability |-> Num(0)],
      [raises |-> FALSE, rain_probability |-> Rat(3, 10)] }

BrokenModel(model) == [model EXCEPT !.broken = TRUE]

\* predictors whose estimators work, fail on every row, or reject an infinite value
Predictors ==
    { [quali_model |-> q, sprint_model |-> s, race_model |-> r, history_df |-> h] :
        q \in {QualiModel}, s \in {SprintModel},
        r \in {Estimator(GridScores, FALSE, {})} \cup FailingRaceModels,
        h \in PersistedHistories }
    \cup
    { [quali_model |-> q, sprint_model |-> s, race_model |-> Estimator(GridScores, FALSE, {}),
       history_df |-> [columns |-> {}, rows |-> <<>>]] :
        q \in {QualiModel, BrokenModel(QualiModel)},
        s \in {SprintModel, BrokenModel(SprintModel)} }

NamedDrivers == {NoDriver, "VER", "ANT"}

Overrides == {None, Rat(1, 2), Inf}

PracticeWorlds ==
    { NoSession,
      Session(Weather("table", <<TRUE, FALSE, FALSE>>), TRUE,
              <<Lap("VER", "1", Num(90000), 1, "1", Num(310)),
                Lap("PER", "11", Num(90500), 1, "1", Num(305))>>, TRUE, TRUE, Telemetry(TRUE)) }

\* ---------------------------------------------------------------- SpecNextSession
InitNextSession ==
    /\ pc = "call"
    /\ \E p \in Predictors, e \in NextEvents, q \in QualiWorlds, fp2 \in PracticeWorlds,
          fp1 \in PracticeWorlds, ws \in WeatherServices, d \in NamedDrivers, w \in Overrides :
          call = [fn |-> "predict_next_session", self |-> p, next_event |-> e,
                  world |-> World(q, fp2, fp1), weather_service |-> ws,
                  driver_name |-> d, weather_override |-> w]
    /\ ret = NoRet
    /\ predictions = <<>>

PredictNextSession ==
    /\ pc = "call"
    /\ call.fn = "predict_next_session"
    /\ ret' \in predict_next_session(call.self, call.next_event, call.world,
                                     call.weather_service, call.driver_name,
                                     call.weather_override)
    /\ predictions' = IF ret'.kind = "list" THEN ret'.value ELSE <<>>
    /\ pc' = IF ret'.kind = "raised" THEN "raised" ELSE "done"
    /\ UNCHANGED call

NextNextSession == PredictNextSession

SpecNextSession == InitNextSession /\ [][NextNextSession]_vars

\* ---------------------------------------------------------------- claims: next session
NextSessionCalled == pc \in {"done", "raised"} /\ call.fn = "predict_next_session"

EventIdentified == call.next_event.present

\* C13: once the upcoming event is identified, predict_next_session takes the
\* race branch exactly when the qualifying session loaded with a non-empty
\* classification, and the qualifying-pending branch in every other case.
C13_BranchByClassification ==
    (NextSessionCalled /\ EventIdentified) =>
        /\ ret.branch \in {"race", "pending"}
        /\ (ret.branch = "race") <=> QualiAvailable

\* the qualifying session loaded with an empty classification: pending branch
C13_Witness ==
    /\ NextSessionCalled /\ EventIdentified
    /\ call.world.Q.present /\ ~QualiAvailable
    /\ ret.branch = "pending"

C13_WitnessRace ==
    NextSessionCalled /\ EventIdentified /\ QualiAvailable /\ ret.branch = "race"

\* the predictions a finished call handed back, as a sequence
Returned ==
    IF ret.kind = "list" THEN ret.value
    ELSE IF ret.kind = "record" THEN <<ret.value>>
    ELSE <<>>

QualiPending == NextSessionCalled /\ EventIdentified /\ ~QualiAvailable

\* no practice-derived pace feature: the three are the missing-value placeholder
NoPracticePace(p) ==
    p.Race_Pace = NaN /\ p.Tire_Degradation = NaN /\ p.Top_Speed = NaN

\* no actual grid: the grid position is the qualifying model's own prediction
NoActualGrid(i) ==
    LET driver == IF ret.kind = "list" THEN Returned[i].Driver ELSE call.driver_name
    IN /\ Returned[i].Grid_Position = call.self.quali_model.table[driver]
       /\ Returned[i].Qualifying_Position = Returned[i].Grid_Position

\* C14: while the qualifying classification is not available, every prediction
\* predict_next_session returns, for a named driver or for the whole field,
\* uses no actual grid position and no practice-derived race pace, tire
\* degradation or top speed.
C14_HistoryOnly ==
    QualiPending =>
        \A i \in 1..Len(Returned) : NoActualGrid(i) /\ NoPracticePace(Returned[i])

\* the part that holds: the grid position is never an actual one, and a named
\* driver's prediction carries no practice pace
PendingNoActualGrid ==
    QualiPending => \A i \in 1..Len(Returned) : NoActualGrid(i)

PendingNamedDriverNoPace ==
    (QualiPending /\ call.driver_name # NoDriver) =>
        \A i \in 1..Len(Returned) : NoPracticePace(Returned[i])

\* whole field, qualifying pending, a practice session on record
PendingFieldWithPractice ==
    /\ QualiPending /\ call.driver_name = NoDriver /\ ~ret.fallback
    /\ call.world.FP2.present
    /\ ret.kind = "list"
    /\ \E i \in 1..Len(Returned) : ~NoPracticePace(Returned[i])

\* ---------------------------------------------------------------- claims: sprint
SprintClasses == {"Top3", "Points", "NoPoints"}

SprintWeekend == call.world.Q.event.EventFormat \in SprintFormats

\* the sprint estimator was called in a run exactly when it was handed an input
SprintInvoked(run) == run.sprint_input # <<>>

\* C15: in every completed predict_driver run the sprint model is invoked iff
\* the event is a sprint weekend; Sprint_Class is N/A on every other event and
\* one of Top3, Points, NoPoints on every sprint weekend.
C15_SprintIffSprintWeekend ==
    RaceCalled =>
        \A k \in 1..Len(ret.runs) :
            ~ret.runs[k].raised =>
                /\ SprintInvoked(ret.runs[k]) <=> SprintWeekend
                /\ SprintWeekend => ret.runs[k].value.Sprint_Class \in SprintClasses
                /\ ~SprintWeekend => ret.runs[k].value.Sprint_Class = NotApplicable

\* what the code does decide on: the loaded session's format being "sprint"
SprintDetected == call.world.Q.present /\ call.world.Q.event.EventFormat = "sprint"

SprintIffDetected ==
    RaceCalled =>
        \A k \in 1..Len(ret.runs) :
            ~ret.runs[k].raised =>
                /\ SprintInvoked(ret.runs[k]) <=> SprintDetected
                /\ SprintDetected => ret.runs[k].value.Sprint_Class \in SprintClasses
                /\ ~SprintDetected => ret.runs[k].value.Sprint_Class = NotApplicable
                /\ SprintInvoked(ret.runs[k]) => SprintWeekend

\* a sprint weekend on which a completed run reports N/A
SprintWeekendNotApplicable ==
    /\ RaceCalled /\ SprintWeekend
    /\ \E k \in 1..Len(ret.runs) :
          ~ret.runs[k].raised /\ ret.runs[k].value.Sprint_Class = NotApplicable

SprintWeekendClassified ==
    /\ RaceCalled /\ SprintWeekend
    /\ \E k \in 1..Len(ret.runs) :
          ~ret.runs[k].raised /\ ret.runs[k].value.Sprint_Class \in SprintClasses

\* ---------------------------------------------------------------- claims: estimator failure
\* an estimator raised in one of the predict_driver runs of the call
EstimatorRaised == \E k \in 1..Len(ret.runs) : ret.runs[k].raised

\* C16: an estimator failure is never swallowed: a predict_next_session call in
\* which an estimator raised ends with that exception reaching the caller, and
\* hands back no prediction.
C16_EstimatorFailurePropagates ==
    (NextSessionCalled /\ EstimatorRaised) => (ret.kind = "raised" /\ Returned = <<>>)

\* predict_race and predict_driver do let it through
RacePropagatesEstimatorFailure ==
    (RaceCalled /\ EstimatorRaised) => (ret.raised /\ ret.value = <<>> /\ pc = "raised")

\* a prediction handed back by a call in which the race estimator raised
SwallowedEstimatorFailure ==
    /\ NextSessionCalled /\ EstimatorRaised
    /\ ret.fallback /\ ret.kind = "list" /\ Returned # <<>>
    /\ call.weather_override = Inf

RaceRaised == RaceCalled /\ EstimatorRaised /\ pc = "raised"

\* ---------------------------------------------------------------- claims: probe failure
\* what the fallback is due to hand back: predict_driver's dict for the named
\* driver, predict_race's ranked list when no driver was named, both for the
\* identified event and with no other argument
FallbackDue ==
    IF call.driver_name # NoDriver
    THEN { run.value : run \in predict_driver(call.self, call.world, call.driver_name,
                                              call.next_event.EventName, None, NoSession, None) }
    ELSE { o.value : o \in predict_race(call.self, call.world, call.next_event.EventName,
                                        <<>>, None) }

C17_WitnessField ==
    /\ NextSessionCalled /\ EventIdentified /\ ~EstimatorRaised
    /\ call.weather_service.raises /\ ret.fallback /\ ret.kind = "list" /\ Returned # <<>>

\* ---------------------------------------------------------------- train.py: train_on_real_data
\* The data ingestion loop.  While it runs, ret holds the locals of
\* train_on_real_data: [driver_history, constructor_history, all_features,
\* year, event], year and event being the positions of the two loops.
\* call.sessions[y] is what load_all_season_sessions returned for season y: a
\* list of [round, event_name, sessions], sessions giving for each of Q, S, R,
\* FP1, FP2 a record with present = FALSE when the key is not in the dict.
\* A history row is a classification row renamed, with RoundNumber and Year.

TrainHistoryRow(result, round_num, year) ==
    [Driver |-> result.Abbreviation, Position |-> result.Position, Status |-> result.Status,
     TeamName |-> result.TeamName, RoundNumber |-> round_num, Year |-> year]

\* new_d_hist: session.results[['Abbreviation', 'Position', 'Status', 'TeamName']]
NewHistory(session, round_num, year) ==
    [i \in 1..Len(session.results.rows) |->
        TrainHistoryRow(session.results.rows[i], round_num, year)]

\* variant: the new results go in front
HistoryConcatFront(history, new_hist) == new_hist \o history

\* pd.concat([driver_history, new_d_hist])
HistoryConcat(history, new_hist) == history \o new_hist

TrainLocals(driver_history, constructor_history, all_features, year, event) ==
    [driver_history |-> driver_history, constructor_history |-> constructor_history,
     all_features |-> all_features, year |-> year, event |-> event]

\* practice session for race pace: FP2 if there, else FP1, else None
TrainPractice(sessions) ==
    IF sessions.FP2.present THEN sessions.FP2
    ELSE IF sessions.FP1.present THEN sessions.FP1
    ELSE NoSession

\* one "Process ..." block of the loop body.  skip: the block hit `continue`
\* (the session's laps are not there after the load attempt); raised: the
\* extraction let an exception go; feats: what the block appended.
TrainBlock(skip, raised, feats) == [skip |-> skip, raised |-> raised, feats |-> feats]

\* variant: the session's own results are in the history before its rows are built
ProcessSessionAfterAppend(session, session_type, year, locals, practice_session) ==
    IF ~session.present THEN { TrainBlock(FALSE, FALSE, <<>>) }
    ELSE IF ~session.laps_loaded THEN { TrainBlock(TRUE, FALSE, <<>>) }
    ELSE LET new_hist == NewHistory(session, session.event.RoundNumber, year)
         IN { TrainBlock(FALSE, o.raised,
                         << [SessionType |-> session_type, Year |-> year,
                             RoundNumber |-> session.event.RoundNumber, rows |-> o.rows,
                             seen |-> locals.driver_history \o new_hist] >>) :
                o \in extract_features_for_session(session, locals.driver_history \o new_hist,
                                                   locals.constructor_history \o new_hist,
                                                   practice_session) }

ProcessSession(session, session_type, year, locals, practice_session) ==
    IF ~session.present THEN { TrainBlock(FALSE, FALSE, <<>>) }
    ELSE IF ~session.laps_loaded THEN { TrainBlock(TRUE, FALSE, <<>>) }
    ELSE { TrainBlock(FALSE, o.raised,
                      << [SessionType |-> session_type, Year |-> year,
                          RoundNumber |-> session.event.RoundNumber, rows |-> o.rows,
                          seen |-> locals.driver_history] >>) :
             o \in extract_features_for_session(session, locals.driver_history,
                                                locals.constructor_history, practice_session) }

\* The body of `for event in sessions`: the set of [raised, locals] it can end in.
ProcessEvent(locals, year, event) ==
    LET practice_session == TrainPractice(event.sessions)
        next == locals.event + 1
    IN UNION { UNION { UNION {
         IF q.raised \/ s.raised \/ r.raised
         THEN { [raised |-> TRUE, locals |-> locals] }
         ELSE IF q.skip
         THEN { [raised |-> FALSE, locals |-> [locals EXCEPT !.event = next]] }
         ELSE IF s.skip
         THEN { [raised |-> FALSE,
                 locals |-> [locals EXCEPT !.event = next,
                                           !.all_features = @ \o q.feats]] }
         ELSE IF r.skip \/ ~event.sessions.R.present
         THEN { [raised |-> FALSE,
                 locals |-> [locals EXCEPT !.event = next,
                                           !.all_features = @ \o q.feats \o s.feats]] }
         ELSE LET new_d_hist == NewHistory(event.sessions.R, event.round, year)
              IN { [raised |-> FALSE,
                    locals |-> [locals EXCEPT
                                  !.event = next,
                                  !.all_features = @ \o q.feats \o s.feats \o r.feats,
                                  !.driver_history = HistoryConcat(@, new_d_hist),
                                  !.constructor_history = HistoryConcat(@, new_d_hist)]] } :
           r \in ProcessSession(event.sessions.R, "Race", year, locals, practice_session) } :
           s \in ProcessSession(event.sessions.S, "Sprint", year, locals, NoSession) } :
           q \in ProcessSession(event.sessions.Q, "Qualifying", year, locals, NoSession) }

\* variant: the histories are kept from one season to the next
SeasonEndKeepsHistory(locals) ==
    [locals EXCEPT !.year = @ + 1, !.event = 1]

\* after the last event of a season: both histories start again empty
SeasonEnd(locals) ==
    [locals EXCEPT !.driver_history = <<>>, !.constructor_history = <<>>,
                   !.year = @ + 1, !.event = 1]

\* full_dataset = pd.concat(all_features)
FullDataset(all_features) ==
    LET RECURSIVE Concat(_)
        Concat(k) ==
            IF k = 0 THEN <<>>
            ELSE Concat(k - 1) \o
                 [i \in 1..Len(all_features[k].rows) |->
                     [SessionType |-> all_features[k].SessionType,
                      RoundNumber |-> all_features[k].RoundNumber,
                      row |-> all_features[k].rows[i]]]
    IN Concat(Len(all_features))

\* ---------------------------------------------------------------- inputs
MaxSeasons == 2
MaxEvents == 2

TrainSeasons(n) == [i \in 1..n |-> 2021 + i]

NoTrainSession ==
    [present |-> FALSE, event |-> [RoundNumber |-> 0, EventName |-> <<>>],
     weather |-> Weather("none", <<>>), results |-> [ok |-> TRUE, rows |-> <<>>],
     laps_loaded |-> FALSE, laps |-> <<>>]

\* a session of the season's round: VER classified first, PER not classified
TrainSession(round, loaded) ==
    [present |-> TRUE, event |-> [RoundNumber |-> round, EventName |-> sMonacoGrandPrix],
     weather |-> Weather("table", <<FALSE>>),
     results |-> [ok |-> TRUE,
                  rows |-> <<Result("1", "VER", "Red Bull Racing", Num(2), Num(1), sFinished),
                            Result("11", "PER", "Red Bull Racing", Num(1), NaN, sEngine)>>],
     laps_loaded |-> loaded, laps |-> ClassifiedLaps]

TrainFP1 ==
    Session(Weather("table", <<TRUE, FALSE>>), TRUE,
            <<Lap("VER", "1", Num(90000), 1, "1", Num(310))>>, TRUE, TRUE, Telemetry(TRUE))

\* the shapes of a weekend: qualifying and race; qualifying that does not load
\* and race; sprint, race and first practice
EventShapes == {"QR", "qR", "SR"}

TrainEvent(round, shape) ==
    [round |-> round, event_name |-> sMonacoGrandPrix,
     sessions |->
        [Q |-> IF shape = "QR" THEN TrainSession(round, TRUE)
               ELSE IF shape = "qR" THEN TrainSession(round, FALSE)
               ELSE NoTrainSession,
         S |-> IF shape = "SR" THEN TrainSession(round, TRUE) ELSE NoTrainSession,
         R |-> TrainSession(round, TRUE),
         FP1 |-> IF shape = "SR" THEN TrainFP1 ELSE NoSession,
         FP2 |-> NoSession]]

\* the schedule lists the rounds in order, so a season's events do too
SeasonSessions(shapes) == [i \in 1..Len(shapes) |-> TrainEvent(i, shapes[i])]

\* ---------------------------------------------------------------- SpecTrain
InitTrain ==
    /\ pc = "train"
    /\ \E n \in 1..MaxSeasons, first \in SeqsUpTo(EventShapes, MaxEvents),
          later \in SeqsUpTo(EventShapes, MaxEvents) :
          call = [fn |-> "train", seasons |-> TrainSeasons(n),
                  sessions |-> [y \in 1..n |-> SeasonSessions(IF y = 1 THEN first ELSE later)]]
    /\ ret = TrainLocals(<<>>, <<>>, <<>>, 1, 1)
    /\ predictions = <<>>

InSeason == pc = "train" /\ call.fn = "train"

\* one pass of `for event in sessions`
TrainProcessEvent ==
    /\ InSeason
    /\ ret.event <= Len(call.sessions[ret.year])
    /\ \E o \in ProcessEvent(ret, call.seasons[ret.year], call.sessions[ret.year][ret.event]) :
          /\ ret' = o.locals
          /\ pc' = IF o.raised THEN "raised" ELSE "train"
    /\ UNCHANGED <<call, predictions>>

\* the end of one pass of `for year in seasons`
TrainSeasonEnd ==
    /\ InSeason
    /\ ret.event > Len(call.sessions[ret.year])
    /\ ret' = SeasonEnd(ret)
    /\ pc' = IF ret.all_features = <<>> THEN "returned"
             ELSE IF ret.year = Len(call.seasons) THEN "fit"
             ELSE "train"
    /\ UNCHANGED <<call, predictions>>

\* 2. Training
TrainModels ==
    /\ pc = "fit"
    /\ call.fn = "train"
    /\ predictions' = FullDataset(ret.all_features)
    /\ pc' = IF predictions' = <<>> THEN "returned" ELSE "done"
    /\ UNCHANGED <<call, ret>>

NextTrain == TrainProcessEvent \/ TrainSeasonEnd \/ TrainModels

SpecTrain == InitTrain /\ [][NextTrain]_vars

\* ---------------------------------------------------------------- claims: training histories
Training == call.fn = "train"

SeasonOf(history, year) == \A i \in 1..Len(history) : history[i].Year = year

\* C18: rolling windows never cross a season boundary: every batch of feature
\* rows was extracted against a history holding results of the batch's own
\* season only, and while a season is processed both histories hold results of
\* that season only.
C18_SeasonBoundary ==
    Training =>
        /\ \A k \in 1..Len(ret.all_features) :
              SeasonOf(ret.all_features[k].seen, ret.all_features[k].Year)
        /\ InSeason =>
              /\ SeasonOf(ret.driver_history, call.seasons[ret.year])
              /\ SeasonOf(ret.constructor_history, call.seasons[ret.year])

\* rows of a second season extracted against that season's first race, after
\* a first season that left results behind
C18_Witness ==
    /\ InSeason /\ ret.year = 2
    /\ ret.driver_history # <<>>
    /\ \E k \in 1..Len(ret.all_features) :
          ret.all_features[k].Year = call.seasons[1] /\ ret.all_features[k].seen # <<>>
    /\ \E k \in 1..Len(ret.all_features) :
          ret.all_features[k].Year = call.seasons[2] /\ ret.all_features[k].seen # <<>>

IsPrefix(s, t) == Len(s) <= Len(t) /\ \A i \in 1..Len(s) : t[i] = s[i]

RoundsNonDecreasing(history) ==
    \A i \in 1..Len(history) : \A j \in i..Len(history) :
        history[i].RoundNumber <= history[j].RoundNumber

\* what one pass of the event loop may do to a history: keep every entry in
\* place and add, at the end, rows of the round just processed and nothing else
Appended(old, new, round_num) ==
    /\ IsPrefix(old, new)
    /\ \A i \in (Len(old) + 1)..Len(new) : new[i].RoundNumber = round_num

HistoriesOrdered ==
    InSeason => RoundsNonDecreasing(ret.driver_history)
                /\ RoundsNonDecreasing(ret.constructor_history)

\* C19: within one season the history is append-only and ordered: a pass of
\* the event loop only adds the results of the race just processed, leaves
\* every existing entry as it is, and the RoundNumber of the entries in
\* insertion order is non-decreasing.
C19_AppendOnlyOrdered ==
    /\ []HistoriesOrdered
    /\ [][TrainProcessEvent =>
            /\ Appended(ret.driver_history, ret'.driver_history,
                        call.sessions[ret.year][ret.event].round)
            /\ Appended(ret.constructor_history, ret'.constructor_history,
                        call.sessions[ret.year][ret.event].round)]_vars

\* two races of one season on record
C19_Witness ==
    /\ InSeason
    /\ \E i \in 1..Len(ret.driver_history) : \E j \in 1..Len(ret.driver_history) :
          i < j /\ ret.driver_history[i].RoundNumber < ret.driver_history[j].RoundNumber

\* ---------------------------------------------------------------- the history tables across a call
\* What a call leaves in the tables it was handed.  A pandas operation is
\* [self, out]: the rows of the frame it was called on afterwards, and the
\* rows of the frame it returns.

\* variant: the rows not selected are dropped from the frame itself
GetItemInPlace(df, mask) ==
    LET kept == [i \in 1..Len(df) |-> mask[i]]
        Rows[k \in 0..Len(df)] ==
            IF k = 0 THEN <<>> ELSE IF kept[k] THEN Append(Rows[k - 1], df[k]) ELSE Rows[k - 1]
    IN [self |-> Rows[Len(df)], out |-> Rows[Len(df)]]

\* df[mask], mask a boolean column: a new frame with the selected rows
GetItem(df, mask) ==
    LET Rows[k \in 0..Len(df)] ==
            IF k = 0 THEN <<>> ELSE IF mask[k] THEN Append(Rows[k - 1], df[k]) ELSE Rows[k - 1]
    IN [self |-> df, out |-> Rows[Len(df)]]

\* driver_results['RoundNumber'] < current_round
MaskBeforeRound(df, current_round) == [i \in 1..Len(df) |-> df[i].RoundNumber < current_round]

\* calculate_driver_season_avg_position, calculate_driver_dnf_rate and
\* calculate_reliability_score index their table once; sort_values, tail,
\* iterrows and mean then work on the frame the indexing returned
AfterRoundFilter(results, current_round) ==
    GetItem(results, MaskBeforeRound(results, current_round)).self

\* calculate_constructor_standing: the early returns, then one indexing
AfterStanding(standings_data, team_name, current_round) ==
    IF ~standings_data.present \/ standings_data.rows = <<>> THEN standings_data
    ELSE IF current_round - 1 < 1 THEN standings_data
    ELSE [standings_data EXCEPT
            !.rows = GetItem(@, [i \in 1..Len(@) |->
                                   /\ @[i].RoundNumber = current_round - 1
                                   /\ @[i].TeamName = team_name]).self]

\* extract_features_for_session: for each classified driver, d_hist and c_hist
\* are taken out of the histories by indexing and the calculators get those
RECURSIVE AfterExtract(_, _, _, _)
AfterExtract(session, driver_history, constructor_history, k) ==
    IF k = 0 \/ ~session.results.ok
    THEN [driver_history |-> driver_history, constructor_history |-> constructor_history]
    ELSE LET before == AfterExtract(session, driver_history, constructor_history, k - 1)
             row == session.results.rows[k]
             d_hist == GetItem(before.driver_history,
                               [i \in 1..Len(before.driver_history) |->
                                  before.driver_history[i].Driver = row.Abbreviation])
             c_hist == GetItem(before.constructor_history,
                               [i \in 1..Len(before.constructor_history) |->
                                  before.constructor_history[i].TeamName = row.TeamName])
         IN [driver_history |-> d_hist.self, constructor_history |-> c_hist.self]

\* ---------------------------------------------------------------- SpecHistory
ReadOnlySession ==
    ClassifiedSession(MaxRound + 1, sMonacoGrandPrix, Weather("table", <<TRUE, FALSE>>), TRUE,
                      <<Result("1", "VER", "Red Bull Racing", Num(2), Num(1), sFinished),
                        Result("16", "LEC", "Ferrari", Num(1), Num(2), sFinished)>>, TRUE)

InitHistory ==
    /\ pc = "call"
    /\ \/ \E f \in {"avg_position", "dnf_rate", "reliability"}, h \in SeasonHistories,
             c \in CurrentRounds :
             call = [fn |-> "history", op |-> f, tables |-> <<h>>, current_round |-> c]
       \/ \E h \in SeasonHistories, p \in BOOLEAN, n \in Teams, c \in CurrentRounds :
             call = [fn |-> "history", op |-> "standing",
                     tables |-> <<[present |-> p, rows |-> IF p THEN h ELSE <<>>]>>,
                     team_name |-> n, current_round |-> c]
       \/ \E d \in SeasonHistories, c \in FewHistories, ok \in BOOLEAN :
             call = [fn |-> "history", op |-> "extract_features",
                     tables |-> <<d, c>>,
                     session |-> [ReadOnlySession EXCEPT !.results.ok = ok]]
    /\ ret = NoRet
    /\ predictions = <<>>

HistoryCall(op) == pc = "call" /\ call.fn = "history" /\ call.op = op

CallAvgPosition ==
    /\ HistoryCall("avg_position")
    /\ \E v \in calculate_driver_season_avg_position(call.tables[1], call.current_round,
                                                     DefaultWindow) :
          ret' = [value |-> v, tables |-> <<AfterRoundFilter(call.tables[1], call.current_round)>>]
    /\ pc' = "done"
    /\ UNCHANGED <<call, predictions>>

CallDnfRate ==
    /\ HistoryCall("dnf_rate")
    /\ ret' = [value |-> calculate_driver_dnf_rate(call.tables[1], call.current_round),
               tables |-> <<AfterRoundFilter(call.tables[1], call.current_round)>>]
    /\ pc' = "done"
    /\ UNCHANGED <<call, predictions>>

CallReliability ==
    /\ HistoryCall("reliability")
    /\ \E v \in calculate_reliability_score(call.tables[1], call.current_round,
                                            ReliabilityWindow) :
          ret' = [value |-> v, tables |-> <<AfterRoundFilter(call.tables[1], call.current_round)>>]
    /\ pc' = "done"
    /\ UNCHANGED <<call, predictions>>

CallStanding ==
    /\ HistoryCall("standing")
    /\ ret' = [value |-> calculate_constructor_standing(call.tables[1], call.team_name,
                                                        call.current_round),
               tables |-> <<AfterStanding(call.tables[1], call.team_name, call.current_round)>>]
    /\ pc' = "done"
    /\ UNCHANGED <<call, predictions>>

CallExtract ==
    /\ HistoryCall("extract_features")
    /\ \E v \in extract_features_for_session(call.session, call.tables[1], call.tables[2],
                                             NoSession) :
          LET after == AfterExtract(call.session, call.tables[1], call.tables[2],
                                    Len(call.session.results.rows))
          IN ret' = [value |-> v, tables |-> <<after.driver_history, after.constructor_history>>]
    /\ pc' = "done"
    /\ UNCHANGED <<call, predictions>>

NextHistory == CallAvgPosition \/ CallDnfRate \/ CallReliability \/ CallStanding \/ CallExtract

SpecHistory == InitHistory /\ [][NextHistory]_vars

\* ---------------------------------------------------------------- claims: read-only history
HistoryReturned == pc = "done" /\ call.fn = "history"

\* C20: the calculators and the assembler leave the history tables they are
\* handed as they were: the same rows, in the same order, with the same values.
C20_HistoryReadOnly ==
    HistoryReturned => ret.tables = call.tables

\* the assembler returned rows computed from a history it filtered by driver
C20_Witness ==
    /\ HistoryReturned /\ call.op = "extract_features"
    /\ ~ret.value.raised /\ ret.value.rows # <<>>
    /\ \E i \in 1..Len(call.tables[1]) : call.tables[1][i].Driver = "PER"
    /\ \E i \in 1..Len(call.tables[1]) : call.tables[1][i].Driver = "VER"

\* a calculator returned after filtering out a row of its table
C20_WitnessCalculator ==
    /\ HistoryReturned /\ call.op = "avg_position"
    /\ \E i \in 1..Len(call.tables[1]) : call.tables[1][i].RoundNumber >= call.current_round
    /\ ret.value # NaN

\* ---------------------------------------------------------------- SpecStats
\* calculate_driver_stats over persisted feature logs: one Race row of PER,
\* then VER's Race rows with every pattern of finishes and retirements, then
\* possibly a Qualifying row of VER as the log's last record.
MaxRaces == 7

StatsPositions == {Num(1), Num(4), NaN}

StatsLog(kind, positions, quali_last, with_rel) ==
    LET cell(n) == IF kind = "int" THEN [k |-> "int", v |-> n]
                   ELSE [k |-> "str", v |-> IntToStr(n)]
    IN [columns |-> {"Driver", "SessionType", "TargetPosition"}
                    \cup (IF with_rel THEN {"ReliabilityScore"} ELSE {}),
        rows |-> << PersistedRow(cell(11), "Race", Num(7), Rat(3, 4)) >>
                 \o [i \in 1..Len(positions) |->
                       PersistedRow(cell(1), "Race", positions[i], Rat(9, 10))]
                 \o (IF quali_last
                     THEN << PersistedRow(cell(1), "Qualifying", Num(9), Rat(1, 2)) >>
                     ELSE <<>>)]

InitStats ==
    /\ pc = "call"
    /\ \E kind \in {"int", "str"}, positions \in SeqsUpTo(StatsPositions, MaxRaces),
          quali_last \in BOOLEAN, with_rel \in BOOLEAN, d \in {"VER", "PER"} :
          call = [fn |-> "driver_stats",
                  self |-> Predictor(Estimator(GridScores, FALSE, {}),
                                     StatsLog(kind, positions, quali_last, with_rel)),
                  driver_name |-> d]
    /\ ret = NoRet
    /\ predictions = <<>>

CallDriverStats ==
    /\ pc = "call"
    /\ call.fn = "driver_stats"
    /\ ret' = calculate_driver_stats(call.self, call.driver_name)
    /\ pc' = "done"
    /\ UNCHANGED <<call, predictions>>

NextStats == CallDriverStats

SpecStats == InitStats /\ [][NextStats]_vars

\* ---------------------------------------------------------------- claims: driver stats
StatsReturned == pc = "done" /\ call.fn = "driver_stats"

\* the persisted rows of the driver asked for, and the Race rows among them
StatsDriverRows ==
    SelectSeq(call.self.history_df.rows,
              LAMBDA h : AsTypeStr(h.Driver) = driver_map[call.driver_name])

StatsRaceRows == SelectSeq(StatsDriverRows, LAMBDA h : h.SessionType = "Race")

StatsValidPositions == SelectSeq(Column(StatsRaceRows, "TargetPosition"), IsNum)

\* the three statistics as the claim defines them
StatsAsClaimed ==
    /\ ret.avg_pos = SeriesMean(DfTail(StatsValidPositions, 5))
    /\ ret.dnf_rate = Rat(Len(StatsRaceRows) - Len(StatsValidPositions), Len(StatsRaceRows))
    /\ ret.rel_score = IF "ReliabilityScore" \in call.self.history_df.columns
                       THEN StatsDriverRows[Len(StatsDriverRows)].ReliabilityScore
                       ELSE Rat(95, 100)

\* C21: for a driver with persisted Race history, the average is the mean of
\* the last 5 non-missing TargetPosition values of the driver's Race rows, the
\* DNF rate is the share of Race rows with a missing TargetPosition, and the
\* reliability is the ReliabilityScore of the driver's most recent record, or
\* 0.95 without that column.
C21_DriverStats ==
    (StatsReturned /\ StatsRaceRows # <<>>) => StatsAsClaimed

\* the same, for a driver with at least one classified finish on record
StatsWithAFinish ==
    (StatsReturned /\ StatsValidPositions # <<>>) => StatsAsClaimed

\* more than five finishes on record, a retirement among the races and a
\* Qualifying row as the last record
StatsWindowed ==
    /\ StatsReturned /\ Len(StatsValidPositions) > 5
    /\ Len(StatsRaceRows) > Len(StatsValidPositions)
    /\ StatsDriverRows[Len(StatsDriverRows)].SessionType = "Qualifying"
    /\ StatsAsClaimed

\* a driver who retired from every race on record is given the defaults
StatsOnlyRetirements ==
    /\ StatsReturned /\ StatsRaceRows # <<>> /\ StatsValidPositions = <<>>
    /\ ret = DefaultStats

\* ---------------------------------------------------------------- models: training
\* A training table is [columns, rows]; a row has a field for every column.
\* The field Year of a row is not a column: it is the season the row was
\* extracted from.  An estimator's fit is the record of what it was handed.

HasColumns(table, feature_names) ==
    \A i \in 1..Len(feature_names) : feature_names[i] \in table.columns

\* X[self.feature_names].fillna(0)
FeatureMatrix(feature_names, rows) ==
    [i \in 1..Len(rows) |-> ModelInput(feature_names, rows[i])]

\* the positions of the TRUE entries of a boolean column
MaskedIndices(mask) ==
    LET Idx[k \in 0..Len(mask)] ==
            IF k = 0 THEN <<>> ELSE IF mask[k] THEN Append(Idx[k - 1], k) ELSE Idx[k - 1]
    IN Idx[Len(mask)]

\* y.notna()
NotNa(y) == [i \in 1..Len(y) |-> y[i] \notin {NaN, None}]

Fit(raised, X, y, groups) == [raised |-> raised, X |-> X, y |-> y, groups |-> groups]

NoFit == Fit(FALSE, <<>>, <<>>, <<>>)

KeyError == Fit(TRUE, <<>>, <<>>, <<>>)

\* QualifyingModel.train
QualifyingTrain(model, X, y) ==
    IF ~HasColumns(X, QualiFeatureNames) THEN KeyError
    ELSE LET X_subset == FeatureMatrix(QualiFeatureNames, X.rows)
             kept == MaskedIndices(NotNa(y))
         IN Fit(model.broken, [i \in 1..Len(kept) |-> X_subset[kept[i]]],
                [i \in 1..Len(kept) |-> y[kept[i]]], <<>>)

\* SprintModel._categorize_position
categorize_position(pos) ==
    IF ~RLess(Num(3), pos) THEN "Top3"
    ELSE IF ~RLess(Num(8), pos) THEN "Points"
    ELSE "NoPoints"

\* SprintModel.train
SprintTrain(model, X, y) ==
    IF ~HasColumns(X, SprintFeatureNames) THEN KeyError
    ELSE LET X_subset == FeatureMatrix(SprintFeatureNames, X.rows)
             kept == MaskedIndices(NotNa(y))
         IN Fit(model.broken, [i \in 1..Len(kept) |-> X_subset[kept[i]]],
                [i \in 1..Len(kept) |-> categorize_position(y[kept[i]])], <<>>)

RelevanceBase == 21

\* variant: the position itself as the label
RelevanceIsPosition(pos) == IF pos \in {NaN, None} THEN Num(RelevanceBase) ELSE pos

\* (21 - y.fillna(21)).clip(lower=0), one label
Relevance(pos) ==
    LET y_filled == IF pos \in {NaN, None} THEN Num(RelevanceBase) ELSE pos
        y_relevance == RSub(Num(RelevanceBase), y_filled)
    IN IF RLess(y_relevance, Num(0)) THEN Num(0) ELSE y_relevance

\* RaceModel.train
RaceTrain(model, X, y, groups) ==
    IF ~HasColumns(X, RaceFeatureNames) THEN KeyError
    ELSE Fit(model.broken, FeatureMatrix(RaceFeatureNames, X.rows),
             [i \in 1..Len(y) |-> Relevance(y[i])], groups)

\* train_data.groupby('RoundNumber').size().tolist(), or [len(train_data)]
GroupSizes(train_data) ==
    IF "RoundNumber" \in train_data.columns
    THEN LET keys == Ascending({ train_data.rows[i].RoundNumber :
                                   i \in 1..Len(train_data.rows) })
         IN [g \in 1..Len(keys) |->
               Len(SelectSeq(train_data.rows, LAMBDA r : r.RoundNumber = keys[g]))]
    ELSE << Len(train_data.rows) >>

\* ModelTrainer.train_qualifying / train_sprint / train_race
train_qualifying(self, train_data) ==
    IF "TargetPosition" \notin train_data.columns THEN KeyError
    ELSE QualifyingTrain(self.quali_model, train_data, Column(train_data.rows, "TargetPosition"))

train_sprint(self, train_data) ==
    IF "TargetPosition" \notin train_data.columns THEN KeyError
    ELSE SprintTrain(self.sprint_model, train_data, Column(train_data.rows, "TargetPosition"))

train_race(self, train_data) ==
    IF "TargetPosition" \notin train_data.columns THEN KeyError
    ELSE RaceTrain(self.race_model, train_data, Column(train_data.rows, "TargetPosition"),
                   GroupSizes(train_data))

\* ---------------------------------------------------------------- inputs
MaxPosition == 22

TrainingColumns ==
    {"TrackTemp", "OvertakeDifficulty", "DriverAvgPos", "DriverDNFRate", "QualiDeltaTeammate",
     "ReliabilityScore", "GridPosition", "RacePace", "TireDegradation", "TopSpeed",
     "RainProbability", "TargetPosition", "RoundNumber"}

\* the columns of the table of tests/test_models.py
TestColumns ==
    {"TrackTemp", "OvertakeDifficulty", "DriverAvgPos", "DriverDNFRate", "QualiDeltaTeammate",
     "ReliabilityScore", "TargetPosition", "RoundNumber"}

TrainingRow(year, round, avg_pos, race_pace, pos) ==
    [TrackTemp |-> Num(30), OvertakeDifficulty |-> Num(5), DriverAvgPos |-> avg_pos,
     DriverDNFRate |-> Num(0), QualiDeltaTeammate |-> NaN, ReliabilityScore |-> Num(1),
     GridPosition |-> Num(2), RacePace |-> race_pace, TireDegradation |-> race_pace,
     TopSpeed |-> Num(310), RainProbability |-> None, TargetPosition |-> pos,
     RoundNumber |-> round, Year |-> year]

TestRow(round, pos) ==
    [TrackTemp |-> Num(30), OvertakeDifficulty |-> Num(5), DriverAvgPos |-> Num(3),
     DriverDNFRate |-> Rat(1, 4), QualiDeltaTeammate |-> Rat(1, 2), ReliabilityScore |-> Rat(3, 4),
     TargetPosition |-> Num(pos), RoundNumber |-> round, Year |-> 0]

TrainingLabels == { Num(p) : p \in 1..MaxPosition } \cup {NaN}

\* the Race rows of a run over n seasons of e rounds, two drivers a race
SeasonsTable(n, e) ==
    [columns |-> TrainingColumns,
     rows |-> [i \in 1..(2 * n * e) |->
                 TrainingRow(2021 + ((i - 1) \div (2 * e)) + 1,
                             (((i - 1) \div 2) % e) + 1,
                             Num(3), Num(90),
                             IF i % 2 = 1 THEN Num(1) ELSE NaN)]]

Trainer(broken) ==
    [quali_model |-> [broken |-> FALSE], sprint_model |-> [broken |-> FALSE],
     race_model |-> [broken |-> broken]]

\* ---------------------------------------------------------------- SpecTrainer
InitTrainer ==
    /\ pc = "train_qualifying"
    /\ \/ \E p \in TrainingLabels, q \in TrainingLabels,
             f \in {<<Num(3), Num(90)>>, <<NaN, None>>} :
             call = [fn |-> "trainer", self |-> Trainer(FALSE),
                     train_data |-> [columns |-> TrainingColumns,
                                     rows |-> << TrainingRow(2022, 1, f[1], f[2], p),
                                                 TrainingRow(2022, 1, Num(4), NaN, q) >>]]
       \/ \E n \in 1..MaxSeasons, e \in 1..MaxEvents, b \in BOOLEAN :
             call = [fn |-> "trainer", self |-> Trainer(b), train_data |-> SeasonsTable(n, e)]
       \/ \E r \in 1..MaxRound, p \in 1..3 :
             call = [fn |-> "trainer", self |-> Trainer(FALSE),
                     train_data |-> [columns |-> TestColumns,
                                     rows |-> << TestRow(1, p), TestRow(1, 19), TestRow(r, 4) >>]]
    /\ ret = [quali |-> NoFit, sprint |-> NoFit, race |-> NoFit]
    /\ predictions = <<>>

TrainQualifying ==
    /\ pc = "train_qualifying"
    /\ call.fn = "trainer"
    /\ ret' = [ret EXCEPT !.quali = train_qualifying(call.self, call.train_data)]
    /\ pc' = IF ret'.quali.raised THEN "raised" ELSE "train_sprint"
    /\ UNCHANGED <<call, predictions>>

TrainSprint ==
    /\ pc = "train_sprint"
    /\ call.fn = "trainer"
    /\ ret' = [ret EXCEPT !.sprint = train_sprint(call.self, call.train_data)]
    /\ pc' = IF ret'.sprint.raised THEN "raised" ELSE "train_race"
    /\ UNCHANGED <<call, predictions>>

TrainRace ==
    /\ pc = "train_race"
    /\ call.fn = "trainer"
    /\ ret' = [ret EXCEPT !.race = train_race(call.self, call.train_data)]
    /\ pc' = IF ret'.race.raised THEN "raised" ELSE "done"
    /\ UNCHANGED <<call, predictions>>

NextTrainer == TrainQualifying \/ TrainSprint \/ TrainRace

SpecTrainer == InitTrainer /\ [][NextTrainer]_vars

\* ---------------------------------------------------------------- claims: relevance label
RaceFitted == call.fn = "trainer" /\ pc = "done"

TargetPositions == Column(call.train_data.rows, "TargetPosition")

\* C22: the relevance label of the race model is max(0, 21 - position), 0 for
\* a missing position; never negative, at most 20 for positions >= 1, and
\* strictly higher for a strictly better position among positions 1..21.
C22_RelevanceLabel ==
    RaceFitted =>
        \A i \in 1..Len(TargetPositions) :
            LET pos == TargetPositions[i]
                rel == ret.race.y[i]
            IN /\ IsNum(rel) /\ ~RLess(rel, Num(0))
               /\ IsNaN(pos) => rel = Num(0)
               /\ IsNum(pos) =>
                     /\ rel = (IF RLess(Num(21), pos) THEN Num(0) ELSE RSub(Num(21), pos))
                     /\ ~RLess(pos, Num(1)) => ~RLess(Num(20), rel)
               /\ \A j \in 1..Len(TargetPositions) :
                     (/\ IsNum(pos) /\ IsNum(TargetPositions[j])
                      /\ ~RLess(Num(21), TargetPositions[j])
                      /\ RLess(pos, TargetPositions[j])) => RLess(ret.race.y[j], rel)

\* a winner, and a position beyond 21 clipped to 0
C22_Witness ==
    /\ RaceFitted
    /\ TargetPositions[1] = Num(1) /\ ret.race.y[1] = Num(20)
    /\ TargetPositions[2] = Num(22) /\ ret.race.y[2] = Num(0)

C22_WitnessMissing ==
    RaceFitted /\ TargetPositions[1] = NaN /\ TargetPositions[2] = Num(21) /\ ret.race.y[1] = Num(0)

\* ---------------------------------------------------------------- claims: estimator inputs
Missing(v) == v \in {NaN, None}

\* the rows of the training table whose label is there
LabelledRows == SelectSeq(call.train_data.rows, LAMBDA r : ~Missing(r.TargetPosition))

\* X holds, row by row, the declared features in the declared order, 0 for a
\* missing value
AsDeclared(feature_names, X, rows) ==
    /\ Len(X) = Len(rows)
    /\ \A i \in 1..Len(rows) :
          /\ Len(X[i]) = Len(feature_names)
          /\ \A j \in 1..Len(feature_names) :
                /\ ~Missing(X[i][j])
                /\ X[i][j] = IF Missing(rows[i][feature_names[j]]) THEN Num(0)
                             ELSE rows[i][feature_names[j]]

QualiFitted == call.fn = "trainer" /\ pc \in {"train_sprint", "train_race", "done"}

SprintFitted == call.fn = "trainer" /\ pc \in {"train_race", "done"}

FilledInput(feature_names, input) ==
    Len(input) = Len(feature_names) /\ \A j \in 1..Len(input) : ~Missing(input[j])

PredictInputsFilled ==
    RaceCalled =>
        \A k \in 1..Len(ret.runs) :
            /\ FilledInput(QualiFeatureNames, ret.runs[k].quali_input)
            /\ ret.runs[k].sprint_input # <<>> =>
                  FilledInput(SprintFeatureNames, ret.runs[k].sprint_input)
            /\ ret.runs[k].race_input # <<>> =>
                  FilledInput(RaceFeatureNames, ret.runs[k].race_input)

\* ---------------------------------------------------------------- claims: the test's table
TestTable == call.fn = "trainer" /\ call.train_data.columns = TestColumns

\* C24: on a table with the columns of tests/test_models.py, sorted by
\* RoundNumber, train_qualifying, train_sprint and train_race called in that
\* order all complete without error.
C24_TestTableTrains == TestTable => pc # "raised"

\* the first two do complete; the error is train_race's
TestTableQualiSprintTrain ==
    (TestTable /\ pc = "raised") =>
        (~ret.quali.raised /\ ~ret.sprint.raised /\ ret.race = KeyError)

TestTableRaceRaises == TestTable /\ pc = "raised" /\ ret.race.raised

\* ---------------------------------------------------------------- SpecTrack
\* circuit and event names: something in front, a word that is a key of the
\* table, nearly one, or none, and something behind
NameFronts == { <<>>, <<"C","i","r","c","u","i","t"," ","d","e"," ">>, <<"x">> }

NameWords ==
    { OVERTAKE_DIFFICULTY[i].key : i \in 1..Len(OVERTAKE_DIFFICULTY) }
    \cup { <<>>, <<"m","o","n","a","c","o">>, <<"M","o","n","z">>, <<"S","p","a">>,
           <<"I","t","a","l","i","a","n">> }

NameEnds == { <<>>, <<" ","G","r","a","n","d"," ","P","r","i","x">>, <<" ","M","o","n","z","a">> }

CircuitNames == { f \o w \o e : f \in NameFronts, w \in NameWords, e \in NameEnds }

InitTrack ==
    /\ pc = "call"
    /\ \E n \in CircuitNames : call = [fn |-> "overtake_difficulty", circuit_name |-> n]
    /\ ret = NoRet
    /\ predictions = <<>>

CallOvertakeDifficulty ==
    /\ pc = "call"
    /\ call.fn = "overtake_difficulty"
    /\ ret' = Num(get_track_overtake_difficulty(call.circuit_name))
    /\ pc' = "done"
    /\ UNCHANGED <<call, predictions>>

NextTrack == CallOvertakeDifficulty

SpecTrack == InitTrack /\ [][NextTrack]_vars

\* ---------------------------------------------------------------- claims: overtake difficulty
DifficultyReturned == pc = "done" /\ call.fn = "overtake_difficulty"

KeysInName ==
    { i \in 1..Len(OVERTAKE_DIFFICULTY) :
        StrContains(call.circuit_name, OVERTAKE_DIFFICULTY[i].key) }

\* C25: the overtake difficulty of a circuit name is the table value of a key
\* that is a substring of the name, 5 when no key is; it is an integer in 0..10.
C25_OvertakeDifficulty ==
    DifficultyReturned =>
        /\ ret.d = 1 /\ ret.n \in 0..10
        /\ IF KeysInName = {} THEN ret = Num(5)
           ELSE \E i \in KeysInName : ret = Num(OVERTAKE_DIFFICULTY[i].value)

\* an event name that holds a key among other words
C25_Witness ==
    /\ DifficultyReturned
    /\ call.circuit_name = sMonacoGrandPrix
    /\ ret = Num(10)

C25_WitnessDefault ==
    DifficultyReturned /\ call.circuit_name = sItalianGrandPrix /\ ret = Num(5)

\* ---------------------------------------------------------------- claims: track temperature
\* the temperature the claim gives a session: the mean of its TrackTemp
\* samples, 25 when there are none to read
DueTrackTemp(session) ==
    IF session.present /\ session.weather.state = "table" /\ session.weather.TrackTemp # <<>>
    THEN SeriesMean(session.weather.TrackTemp)
    ELSE Num(25)

\* C26: the track temperature fed at prediction time is the mean of the
\* qualifying session's TrackTemp samples, and the fixed fallback 25.0
\* whenever no samples are available.
C26_TrackTempFallback ==
    RaceCalled =>
        \A k \in 1..Len(ret.runs) :
            Fed(QualiFeatureNames, ret.runs[k].quali_input, "TrackTemp")
                = DueTrackTemp(call.world.Q)

\* it is so whenever the qualifying session loads
TrackTempOfLoadedSession ==
    (RaceCalled /\ call.world.Q.present) =>
        \A k \in 1..Len(ret.runs) :
            Fed(QualiFeatureNames, ret.runs[k].quali_input, "TrackTemp")
                = DueTrackTemp(call.world.Q)

\* no session: the temperature fed is 30
TrackTempWithoutSession ==
    /\ RaceCalled /\ ~call.world.Q.present /\ ret.runs # <<>>
    /\ Fed(QualiFeatureNames, ret.runs[1].quali_input, "TrackTemp") = Num(30)

\* and when rows are assembled for training
TrainingTrackTemp ==
    ExtractDone =>
        \A i \in 1..Len(ret.rows) :
            ret.rows[i].TrackTemp =
                DueTrackTemp([present |-> TRUE, weather |-> call.session.weather])

\* ---------------------------------------------------------------- claims: ranking groups
RECURSIVE SumSeq(_)
SumSeq(s) == IF s = <<>> THEN 0 ELSE Head(s) + SumSeq(Tail(s))

\* the rows the i-th group stands for: the sizes cut the table in row order
GroupRows(groups, i) ==
    LET first == SumSeq(SubSeq(groups, 1, i - 1)) + 1
    IN SubSeq(call.train_data.rows, first, first + groups[i] - 1)

SameRace(r, s) == r.Year = s.Year /\ r.RoundNumber = s.RoundNumber

\* the rows of a group are all the rows of one race
OneRace(rows) ==
    /\ rows # <<>>
    /\ \A k \in 1..Len(rows) : SameRace(rows[k], rows[1])
    /\ Len(rows) = Len(SelectSeq(call.train_data.rows, LAMBDA r : SameRace(r, rows[1])))

\* C27: the group sizes train_race hands to the ranker sum to the number of
\* training rows, and the i-th group covers exactly the rows of one race (one
\* round of one season), contiguous in the table's row order, also when the
\* table holds several seasons.
C27_GroupsAreRaces ==
    RaceFitted =>
        /\ SumSeq(ret.race.groups) = Len(call.train_data.rows)
        /\ \A i \in 1..Len(ret.race.groups) : OneRace(GroupRows(ret.race.groups, i))

SeveralSeasons ==
    \E i \in 1..Len(call.train_data.rows) :
        call.train_data.rows[i].Year # call.train_data.rows[1].Year

\* the sizes always sum to the number of rows, and within one season each
\* group is one race
GroupsOfOneSeason ==
    RaceFitted =>
        /\ SumSeq(ret.race.groups) = Len(call.train_data.rows)
        /\ ~SeveralSeasons =>
              \A i \in 1..Len(ret.race.groups) : OneRace(GroupRows(ret.race.groups, i))

\* two seasons of two rounds: two groups of four rows each
GroupsAcrossSeasons ==
    /\ RaceFitted /\ SeveralSeasons
    /\ Len(call.train_data.rows) = 8
    /\ ret.race.groups = <<4, 4>>

GroupsWithinSeason ==
    RaceFitted /\ ~SeveralSeasons /\ Len(call.train_data.rows) = 4 /\ ret.race.groups = <<2, 2>>

\* ---------------------------------------------------------------- claims: weather override
Overridden == NextSessionCalled /\ call.weather_override # None

\* C28: with a weather override w, every prediction predict_next_session
\* returns has Rain_Probability = w, whichever branch produced it, and the
\* weather service is not consulted.
C28_OverrideEverywhere ==
    Overridden =>
        /\ ~ret.weather_consulted
        /\ \A i \in 1..Len(Returned) : Returned[i].Rain_Probability = call.weather_override

\* the service is never consulted, and the race branch does carry the override
OverrideInRaceBranch ==
    Overridden =>
        /\ ~ret.weather_consulted
        /\ (ret.branch = "race" /\ ~ret.fallback) =>
              \A i \in 1..Len(Returned) : Returned[i].Rain_Probability = call.weather_override

\* qualifying pending: the prediction comes back without the override
OverrideLostWhilePending ==
    /\ Overridden /\ ret.branch = "pending" /\ ~ret.fallback
    /\ call.weather_override = Rat(1, 2)
    /\ Returned # <<>> /\ Returned[1].Rain_Probability = Num(0)

OverrideLostInFallback ==
    /\ Overridden /\ ret.branch = "race" /\ ret.fallback
    /\ Returned # <<>> /\ Returned[1].Rain_Probability # call.weather_override

\* ---------------------------------------------------------------- claims: race of every event
CurrentEvent == call.sessions[ret.year][ret.event]

RaceAvailable(event) ==
    event.sessions.R.present /\ event.sessions.R.laps_loaded /\ event.sessions.R.results.ok

\* the pass extracted the event's Race rows and appended its results
RaceProcessed(event, year) ==
    /\ Len(ret'.all_features) > Len(ret.all_features)
    /\ LET batch == ret'.all_features[Len(ret'.all_features)]
       IN batch.SessionType = "Race" /\ batch.RoundNumber = event.round /\ batch.Year = year
    /\ ret'.driver_history = ret.driver_history \o NewHistory(event.sessions.R, event.round, year)
    /\ ret'.constructor_history
          = ret.constructor_history \o NewHistory(event.sessions.R, event.round, year)

SessionLoads(session) == ~session.present \/ session.laps_loaded

\* C29: every pass of the event loop over an event whose Race session is
\* available extracts the Race feature rows and appends the race results to
\* both histories, whether or not the event's Qualifying or Sprint session
\* could be loaded.
C29_RaceAlwaysProcessed ==
    [][(TrainProcessEvent /\ RaceAvailable(CurrentEvent))
         => RaceProcessed(CurrentEvent, call.seasons[ret.year])]_vars

\* it is so when the Qualifying and Sprint sessions that are there do load
RaceProcessedWhenOthersLoad ==
    [][(/\ TrainProcessEvent /\ RaceAvailable(CurrentEvent)
        /\ SessionLoads(CurrentEvent.sessions.Q) /\ SessionLoads(CurrentEvent.sessions.S))
         => RaceProcessed(CurrentEvent, call.seasons[ret.year])]_vars

\* the first event's qualifying did not load: its race left no trace
RaceSkipped ==
    /\ InSeason /\ ret.year = 1 /\ ret.event = 2
    /\ RaceAvailable(call.sessions[1][1])
    /\ ~SessionLoads(call.sessions[1][1].sessions.Q)
    /\ ret.all_features = <<>> /\ ret.driver_history = <<>>

\* ---------------------------------------------------------------- claims: no look-ahead
TrainClassification == TrainSession(1, TRUE).results.rows

\* the entries of a history a row of round R may use
StrictlyBefore(history, round_num) ==
    SelectSeq(history, LAMBDA h : h.RoundNumber < round_num)

\* the rolling statistics of row i of a batch come from the earlier entries
StatisticsFromEarlier(batch, i) ==
    LET earlier == StrictlyBefore(batch.seen, batch.RoundNumber)
        d_hist == SelectSeq(earlier, LAMBDA h : h.Driver = TrainClassification[i].Abbreviation)
        c_hist == SelectSeq(earlier, LAMBDA h : h.TeamName = TrainClassification[i].TeamName)
    IN /\ batch.rows[i].DriverAvgPos
             \in calculate_driver_season_avg_position(d_hist, batch.RoundNumber, DefaultWindow)
       /\ batch.rows[i].DriverDNFRate = calculate_driver_dnf_rate(d_hist, batch.RoundNumber)
       /\ batch.rows[i].ReliabilityScore
             \in calculate_reliability_score(c_hist, batch.RoundNumber, ReliabilityWindow)

\* C30: no feature row looks ahead: the Qualifying, Sprint and Race rows of
\* round R are all extracted against a history without the results of round
\* R, and every rolling statistic of a row of round R is computed from
\* history entries of rounds strictly less than R.
C30_NoLookAhead ==
    Training =>
        \A k \in 1..Len(ret.all_features) :
            /\ \A j \in 1..Len(ret.all_features[k].seen) :
                  ret.all_features[k].seen[j].RoundNumber < ret.all_features[k].RoundNumber
            /\ \A i \in 1..Len(ret.all_features[k].rows) :
                  StatisticsFromEarlier(ret.all_features[k], i)

\* Qualifying and Race rows of the second round, extracted against the first
\* round's results, with the second round's results now on record
C30_Witness ==
    /\ InSeason
    /\ \E k \in 1..Len(ret.all_features) :
          /\ ret.all_features[k].SessionType = "Qualifying"
          /\ ret.all_features[k].RoundNumber = 2 /\ ret.all_features[k].seen # <<>>
    /\ \E k \in 1..Len(ret.all_features) :
          /\ ret.all_features[k].SessionType = "Race"
          /\ ret.all_features[k].RoundNumber = 2 /\ ret.all_features[k].seen # <<>>
          /\ ret.all_features[k].rows[2].DriverDNFRate = Num(1)
    /\ \E j \in 1..Len(ret.driver_history) : ret.driver_history[j].RoundNumber = 2

====
